---- MODULE Spec2Model ----
(***************************************************************************)
(* Grade computation engine of the Acadify grading system                  *)
(* (models.py: Class, Grade, Student; blueprints/teacher/routes.py).       *)
(*                                                                         *)
(* Conventions of the model                                                *)
(*   - a nullable column or an optional dictionary key is None (<<>>) or   *)
(*     Some(v) (<<v>>);                                                    *)
(*   - a text (names, range strings of the conversion table) is a sequence *)
(*     of one-character strings, so that strip(), split('-') and int() are *)
(*     computed and not assumed;                                           *)
(*   - grades (1.0 .. 5.0) and rounded percentages are kept in hundredths  *)
(*     (1.25 is 125, 81.67 is 8167); unrounded values are exact rationals  *)
(*     <<num, den>>;                                                       *)
(*   - round(x, 2) is the nearest hundredth; on an exact tie the float     *)
(*     result depends on the binary representation, so the tie direction   *)
(*     is an input of the step ("down" or "up").                           *)
(***************************************************************************)
EXTENDS Integers, Sequences, FiniteSets, TLC

\* requests holds the requests that run step by step, each with what its
\* database session has read; it stays empty where requests run whole
VARIABLES classes, tests, grades, enrollments, last, requests

vars == <<classes, tests, grades, enrollments, last, requests>>

---------------------------------------------------------------------------
(* Bounds of the model *)

MaxClasses == 2
MaxTests == 1
MaxItems == 2

---------------------------------------------------------------------------
(* Optional values *)

None == <<>>
Some(v) == <<v>>
IsNone(x) == x = <<>>
Val(x) == x[1]

\* Python truthiness of an optional number: None and 0 are false
Truthy(x) == x # None /\ Val(x) # 0

Range(s) == {s[i] : i \in DOMAIN s}

RECURSIVE SumSeq(_)
SumSeq(s) == IF s = <<>> THEN 0 ELSE Head(s) + SumSeq(Tail(s))

RemoveAt(s, i) == [j \in 1..(Len(s) - 1) |-> IF j < i THEN s[j] ELSE s[j + 1]]

---------------------------------------------------------------------------
(* Texts *)

IsSpace(ch) == ch = " "

RECURSIVE LStrip(_)
LStrip(s) == IF s # <<>> /\ IsSpace(Head(s)) THEN LStrip(Tail(s)) ELSE s

RECURSIVE RStrip(_)
RStrip(s) ==
    IF s # <<>> /\ IsSpace(s[Len(s)]) THEN RStrip(SubSeq(s, 1, Len(s) - 1)) ELSE s

\* str.strip()
Strip(s) == RStrip(LStrip(s))

Digits == <<"0", "1", "2", "3", "4", "5", "6", "7", "8", "9">>

IsDigit(ch) == \E d \in 1..10 : Digits[d] = ch

DigitVal(ch) == (CHOOSE d \in 1..10 : Digits[d] = ch) - 1

RECURSIVE DecimalValue(_)
DecimalValue(s) ==
    IF s = <<>> THEN 0
    ELSE 10 * DecimalValue(SubSeq(s, 1, Len(s) - 1)) + DigitVal(s[Len(s)])

\* int(text) on texts over digits and '-': None stands for ValueError
ParseInt(s) ==
    IF s # <<>> /\ \A i \in DOMAIN s : IsDigit(s[i])
    THEN Some(DecimalValue(s))
    ELSE None

\* str.split('-')
RECURSIVE SplitDash(_)
SplitDash(s) ==
    IF \A i \in DOMAIN s : s[i] # "-" THEN <<s>>
    ELSE LET k == CHOOSE i \in DOMAIN s :
                      s[i] = "-" /\ \A j \in 1..(i - 1) : s[j] # "-"
         IN <<SubSeq(s, 1, k - 1)>> \o SplitDash(SubSeq(s, k + 1, Len(s)))

---------------------------------------------------------------------------
(* Exact rationals and rounding *)

Abs(n) == IF n < 0 THEN -n ELSE n

RECURSIVE GCD(_, _)
GCD(a, b) == IF b = 0 THEN a ELSE GCD(b, a % b)

\* the fraction n/d (d # 0) in lowest terms with a positive denominator
Rat(n, d) ==
    LET sn == IF d < 0 THEN -n ELSE n
        sd == Abs(d)
        g == GCD(Abs(sn), sd)
    IN  <<sn \div g, sd \div g>>

RAdd(p, q) == Rat(p[1] * q[2] + q[1] * p[2], p[2] * q[2])
RMulInt(p, k) == Rat(p[1] * k, p[2])
RDivInt(p, k) == Rat(p[1], p[2] * k)

RECURSIVE RSum(_)
RSum(s) == IF s = <<>> THEN Rat(0, 1) ELSE RAdd(Head(s), RSum(Tail(s)))

TieModes == {"down", "up"}

\* the tie directions that matter for n/d: both on an exact half
TiesOf(n, d) == IF 2 * (n % d) = d THEN TieModes ELSE {"down"}

\* the integer nearest to n/d (d > 0); an exact half goes the way of tie
RoundRat(n, d, tie) ==
    LET q == n \div d
        r == n % d
    IN  IF 2 * r < d THEN q
        ELSE IF 2 * r > d THEN q + 1
        ELSE IF tie = "down" THEN q ELSE q + 1

\* round(x, 2) of the rational x, in hundredths
Round2(x, tie) == RoundRat(100 * x[1], x[2], tie)

---------------------------------------------------------------------------
(* Stored JSON columns: NULL is None; a text is Some(JsonText(v)) when it  *)
(* parses to v and Some(BadText) when json.loads raises JSONDecodeError.   *)

JsonText(v) == [json |-> v]
BadText == [garbage |-> TRUE]

\* json.dumps
json_dumps(v) == Some(JsonText(v))

\* the column is a non-empty text that json.loads accepts
Parses(col) == col # None /\ "json" \in DOMAIN Val(col)
Loaded(col) == Val(col).json

---------------------------------------------------------------------------
(* Class: grading formula *)

\* a formula component: each key of the dictionary may be missing
Component(name, weight, max_points) ==
    [name |-> name, weight |-> weight, max_points |-> max_points]

\* a formula dictionary; a value that is no dictionary is NotADict
Formula(components, passing_grade, use_ph) ==
    [components |-> components, passing_grade |-> passing_grade,
     use_philippine_conversion |-> use_ph]

NotADict == [not_a_dict |-> TRUE]

IsDict(f) == "components" \in DOMAIN f

\* a JSON list where a dictionary is expected (the subject table's format)
JsonList(items) == [list |-> items]
IsList(f) == "list" \in DOMAIN f

\* c.get('weight', 0)
WeightOrZero(c) == IF c.weight = None THEN 0 ELSE Val(c.weight)

\* sum(c.get('weight', 0) for c in formula['components'])
TotalWeight(components) ==
    SumSeq([i \in DOMAIN components |-> WeightOrZero(components[i])])

DefaultFormula ==
    Formula(Some(<<Component(Some(<<"M">>), Some(50), None),
                   Component(Some(<<"F">>), Some(50), None)>>),
            Some(300), Some(TRUE))

\* a faulty variant: the subject's formula comes before the class's own
get_grading_formula_SubjectFirst(cls) ==
    IF cls.subject # None /\ Parses(Val(cls.subject).grading_formula)
    THEN LET formula == Loaded(Val(cls.subject).grading_formula)
         IN  IF IsDict(formula) /\ formula.components # None THEN formula
             ELSE Formula(Some(IF IsList(formula) THEN formula.list ELSE <<>>),
                          Some(300), Some(TRUE))
    ELSE IF Parses(cls.grading_formula) THEN Loaded(cls.grading_formula)
    ELSE DefaultFormula

\* Class.get_grading_formula: the class's own formula, else the subject's,
\* else the default
get_grading_formula(cls) ==
    IF Parses(cls.grading_formula) THEN Loaded(cls.grading_formula)
    ELSE IF cls.subject # None /\ Parses(Val(cls.subject).grading_formula)
    THEN LET formula == Loaded(Val(cls.subject).grading_formula)
         IN  IF IsDict(formula) /\ formula.components # None THEN formula
             ELSE Formula(Some(IF IsList(formula) THEN formula.list ELSE <<>>),
                          Some(300), Some(TRUE))
    ELSE DefaultFormula

\* a faulty variant: the weight total is not checked
set_grading_formula_NoTotalCheck(cls, formula_dict) ==
    IF ~IsDict(formula_dict) THEN [raised |-> "ValueError", cls |-> cls]
    ELSE IF formula_dict.components = None
    THEN [raised |-> "ValueError", cls |-> cls]
    ELSE LET components == Val(formula_dict.components)
         IN  IF \E i \in DOMAIN components :
                    components[i].name = None \/ components[i].weight = None
             THEN [raised |-> "ValueError", cls |-> cls]
             ELSE [raised |-> "",
                   cls |-> [cls EXCEPT !.grading_formula = json_dumps(
                       [formula_dict EXCEPT
                           !.passing_grade =
                               IF @ = None THEN Some(300) ELSE @,
                           !.use_philippine_conversion =
                               IF @ = None THEN Some(TRUE) ELSE @])]]

\* Class.set_grading_formula: the class row after the call and the
\* exception raised ("" when none)
set_grading_formula(cls, formula_dict) ==
    IF ~IsDict(formula_dict) THEN [raised |-> "ValueError", cls |-> cls]
    ELSE IF formula_dict.components = None
    THEN [raised |-> "ValueError", cls |-> cls]
    ELSE LET components == Val(formula_dict.components)
         IN  IF \E i \in DOMAIN components :
                    components[i].name = None \/ components[i].weight = None
             THEN [raised |-> "ValueError", cls |-> cls]
             ELSE IF TotalWeight(components) # 100
             THEN [raised |-> "ValueError", cls |-> cls]
             ELSE [raised |-> "",
                   cls |-> [cls EXCEPT !.grading_formula = json_dumps(
                       [formula_dict EXCEPT
                           !.passing_grade =
                               IF @ = None THEN Some(300) ELSE @,
                           !.use_philippine_conversion =
                               IF @ = None THEN Some(TRUE) ELSE @])]]

---------------------------------------------------------------------------
(* Class: grade conversion *)

\* the default Philippine grading scale, in table order
DefaultConversionTable ==
    << <<<<"9", "7", "-", "1", "0", "0">>, 100>>,
       <<<<"9", "4", "-", "9", "6">>, 125>>,
       <<<<"9", "1", "-", "9", "3">>, 150>>,
       <<<<"8", "8", "-", "9", "0">>, 175>>,
       <<<<"8", "5", "-", "8", "7">>, 200>>,
       <<<<"8", "2", "-", "8", "4">>, 225>>,
       <<<<"7", "9", "-", "8", "1">>, 250>>,
       <<<<"7", "6", "-", "7", "8">>, 275>>,
       <<<<"7", "5">>, 300>>,
       <<<<"6", "5", "-", "7", "4">>, 400>>,
       <<<<"0", "-", "6", "4">>, 500>> >>

\* Class.get_grade_conversion_table
get_grade_conversion_table(cls) ==
    IF Parses(cls.grade_conversion_table) THEN Loaded(cls.grade_conversion_table)
    ELSE DefaultConversionTable

\* the range string of a table entry as convert_to_ph_grade reads it:
\* 'lo-hi' gives the bounds, a text without '-' a single point; raises is
\* TRUE when split and int fail on it (ValueError)
ParseRange(range_str) ==
    IF \E i \in DOMAIN range_str : range_str[i] = "-"
    THEN LET parts == SplitDash(range_str)
         IN  IF Len(parts) # 2 \/ ParseInt(parts[1]) = None
                               \/ ParseInt(parts[2]) = None
             THEN [raises |-> TRUE, lo |-> 0, hi |-> 0]
             ELSE [raises |-> FALSE, lo |-> Val(ParseInt(parts[1])),
                   hi |-> Val(ParseInt(parts[2]))]
    ELSE IF ParseInt(range_str) = None THEN [raises |-> TRUE, lo |-> 0, hi |-> 0]
         ELSE [raises |-> FALSE, lo |-> Val(ParseInt(range_str)),
               hi |-> Val(ParseInt(range_str))]

\* the entries of a table with their range strings read
ParseTable(table) ==
    [i \in DOMAIN table |-> [range |-> ParseRange(table[i][1]), grade |-> table[i][2]]]

DefaultParsed == ParseTable(DefaultConversionTable)

\* the parse of the default table is computed once
Parsed(table) ==
    IF table = DefaultConversionTable THEN DefaultParsed ELSE ParseTable(table)

\* a faulty variant: the upper bound of a range is exclusive
RECURSIVE ConvertFrom_ExclusiveMax(_, _, _)
ConvertFrom_ExclusiveMax(entries, i, percentage) ==
    IF i > Len(entries) THEN Some(500)
    ELSE LET r == entries[i].range
         IN  IF r.raises THEN None
             ELSE IF 100 * r.lo <= percentage
                     /\ (percentage < 100 * r.hi
                         \/ (r.lo = r.hi /\ percentage = 100 * r.hi))
             THEN Some(entries[i].grade)
             ELSE ConvertFrom_ExclusiveMax(entries, i + 1, percentage)

\* the loop of convert_to_ph_grade from entry i on, for a percentage in
\* hundredths: Some(grade), or None when a range string read before any
\* match does not parse (ValueError)
RECURSIVE ConvertFrom(_, _, _)
ConvertFrom(entries, i, percentage) ==
    IF i > Len(entries) THEN Some(500)
    ELSE LET r == entries[i].range
         IN  IF r.raises THEN None
             ELSE IF 100 * r.lo <= percentage /\ percentage <= 100 * r.hi
             THEN Some(entries[i].grade)
             ELSE ConvertFrom(entries, i + 1, percentage)

\* Class.convert_to_ph_grade
convert_to_ph_grade(cls, percentage) ==
    ConvertFrom(Parsed(get_grade_conversion_table(cls)), 1, percentage)

---------------------------------------------------------------------------
(* Grade: the score ledger (component_scores)                              *)
(*                                                                         *)
(* The dictionary maps every key of CompKeys to an entry: absent, a list   *)
(* of items (current format) or a single number (legacy format).  A key    *)
(* of an item is a number, the JSON null or missing.                       *)

Num(v) == [k |-> "num", v |-> v]
Null == [k |-> "null", v |-> 0]
Missing == [k |-> "missing", v |-> 0]

Item(score, max, name, date) ==
    [is_dict |-> TRUE, score |-> score, max |-> max, name |-> name, date |-> date]

\* a list element that is no dictionary
NonDictItem ==
    [is_dict |-> FALSE, score |-> Missing, max |-> Missing, name |-> <<>>, date |-> ""]

AbsentEntry == [kind |-> "absent", items |-> <<>>, value |-> 0]
ListEntry(items) == [kind |-> "list", items |-> items, value |-> 0]
ScalarEntry(v) == [kind |-> "scalar", items |-> <<>>, value |-> v]

Quizzes == <<"Q">>
Exams == <<"E">>
Extra == <<"X">>

CompKeys == {Quizzes, Exams, Extra}

EmptyScores == [c \in CompKeys |-> AbsentEntry]

\* scores.get(name) of a parsed component_scores dictionary
Entry(scores, name) == IF name \in DOMAIN scores THEN scores[name] ELSE AbsentEntry

\* a new Grade row
NewGrade(student_id, test_id) ==
    [student_id |-> student_id, test_id |-> test_id,
     component_scores |-> None,
     calculated_percentage |-> None, calculated_grade |-> None,
     is_overridden |-> FALSE, override_grade |-> None, override_reason |-> None,
     final_grade |-> None]

\* Grade.get_component_scores
get_component_scores(g) ==
    IF Parses(g.component_scores) THEN Loaded(g.component_scores) ELSE EmptyScores

\* Grade.set_component_scores
set_component_scores(g, scores_dict) ==
    [g EXCEPT !.component_scores = json_dumps(scores_dict)]

\* a faulty variant: a score above the max score is let through
AddItemError_NoExceedCheck(score, max_score, item_name) ==
    IF score = None \/ max_score = None THEN "Score and max_score are required"
    ELSE IF Val(score) < 0 THEN "Score cannot be negative"
    ELSE IF Val(max_score) <= 0 THEN "Max score must be greater than 0"
    ELSE IF item_name = None \/ item_name = Some(<<>>)
            \/ Strip(Val(item_name)) = <<>>
    THEN "Item name is required"
    ELSE ""

\* the validation of add_component_item: the message of the ValueError, ""
\* when the arguments pass
AddItemError(score, max_score, item_name) ==
    IF score = None \/ max_score = None THEN "Score and max_score are required"
    ELSE IF Val(score) < 0 THEN "Score cannot be negative"
    ELSE IF Val(score) > Val(max_score) THEN "Score cannot exceed max score"
    ELSE IF Val(max_score) <= 0 THEN "Max score must be greater than 0"
    ELSE IF item_name = None \/ item_name = Some(<<>>)
            \/ Strip(Val(item_name)) = <<>>
    THEN "Item name is required"
    ELSE ""

\* a faulty variant: the item is validated after it was saved
add_component_item_SaveFirst(g, component_name, score, max_score, item_name, item_date, now) ==
    LET err == AddItemError(score, max_score, item_name)
        scores == get_component_scores(g)
        old == IF scores[component_name].kind = "list"
               THEN scores[component_name].items ELSE <<>>
        new_item == Item(Num(IF score = None THEN 0 ELSE Val(score)),
                         Num(IF max_score = None THEN 0 ELSE Val(max_score)),
                         IF item_name = None THEN <<>> ELSE Strip(Val(item_name)),
                         IF item_date # None /\ Val(item_date) # ""
                         THEN Val(item_date) ELSE now)
        saved == set_component_scores(g,
                     [scores EXCEPT ![component_name] = ListEntry(Append(old, new_item))])
    IN  IF err # ""
        THEN [raised |-> err, grade |-> saved, item |-> None]
        ELSE [raised |-> "", grade |-> saved, item |-> Some(new_item)]

\* Grade.add_component_item: the exception raised ("" when none), the row
\* after the call and the item returned
add_component_item(g, component_name, score, max_score, item_name, item_date, now) ==
    LET err == AddItemError(score, max_score, item_name)
    IN  IF err # "" THEN [raised |-> err, grade |-> g, item |-> None]
        ELSE LET scores == get_component_scores(g)
                 old == IF scores[component_name].kind = "list"
                        THEN scores[component_name].items ELSE <<>>
                 new_item == Item(Num(Val(score)), Num(Val(max_score)),
                                  Strip(Val(item_name)),
                                  IF item_date # None /\ Val(item_date) # ""
                                  THEN Val(item_date) ELSE now)
             IN  [raised |-> "",
                  grade |-> set_component_scores(g,
                      [scores EXCEPT ![component_name] =
                           ListEntry(Append(old, new_item))]),
                  item |-> Some(new_item)]

\* Grade.get_component_items
get_component_items(g, component_name) ==
    LET e == Entry(get_component_scores(g), component_name)
    IN  IF e.kind = "list" THEN e.items ELSE <<>>

\* the body of update_component_item on the item found: the exception raised
\* ("" when none) and the item with the assignments made up to there
UpdatedItem(item, score, max_score, item_name, item_date) ==
    IF ~item.is_dict THEN [raised |-> "TypeError", item |-> item]
    ELSE IF score # None /\ Val(score) < 0
    THEN [raised |-> "Score cannot be negative", item |-> item]
    ELSE
    LET with_score == IF score # None THEN [item EXCEPT !.score = Num(Val(score))]
                      ELSE item
    IN  IF max_score # None /\ Val(max_score) <= 0
        THEN [raised |-> "Max score must be greater than 0", item |-> with_score]
        ELSE
        LET with_max == IF max_score # None
                        THEN [with_score EXCEPT !.max = Num(Val(max_score))]
                        ELSE with_score
        IN  IF with_max.score.k = "missing" \/ with_max.max.k = "missing"
            THEN [raised |-> "KeyError", item |-> with_max]
            ELSE IF with_max.score.k = "null" \/ with_max.max.k = "null"
            THEN [raised |-> "TypeError", item |-> with_max]
            ELSE IF with_max.score.v > with_max.max.v
            THEN [raised |-> "Score cannot exceed max score", item |-> with_max]
            ELSE IF item_name # None /\ Strip(Val(item_name)) = <<>>
            THEN [raised |-> "Item name cannot be empty", item |-> with_max]
            ELSE [raised |-> "",
                  item |-> [with_max EXCEPT
                      !.name = IF item_name # None THEN Strip(Val(item_name)) ELSE @,
                      !.date = IF item_date # None THEN Val(item_date) ELSE @]]

\* a faulty variant: the assignments made before a failed validation are saved
update_component_item_SaveOnFailure(g, component_name, item_index, score, max_score, item_name, item_date) ==
    LET scores == get_component_scores(g)
        e == Entry(scores, component_name)
    IN  IF e.kind # "list" THEN [raised |-> "", ok |-> FALSE, grade |-> g]
        ELSE IF ~(0 <= item_index /\ item_index < Len(e.items))
        THEN [raised |-> "", ok |-> FALSE, grade |-> g]
        ELSE LET upd == UpdatedItem(e.items[item_index + 1], score, max_score,
                                    item_name, item_date)
             IN  [raised |-> upd.raised, ok |-> upd.raised = "",
                  grade |-> set_component_scores(g,
                      [scores EXCEPT ![component_name] =
                           ListEntry([e.items EXCEPT ![item_index + 1] = upd.item])])]

\* Grade.update_component_item (item_index is 0-based): the exception raised
\* ("" when none), the value returned and the row after the call
update_component_item(g, component_name, item_index, score, max_score, item_name, item_date) ==
    LET scores == get_component_scores(g)
        e == Entry(scores, component_name)
    IN  IF e.kind # "list" THEN [raised |-> "", ok |-> FALSE, grade |-> g]
        ELSE IF ~(0 <= item_index /\ item_index < Len(e.items))
        THEN [raised |-> "", ok |-> FALSE, grade |-> g]
        ELSE LET upd == UpdatedItem(e.items[item_index + 1], score, max_score,
                                    item_name, item_date)
             IN  IF upd.raised # ""
                 THEN [raised |-> upd.raised, ok |-> FALSE, grade |-> g]
                 ELSE [raised |-> "", ok |-> TRUE,
                       grade |-> set_component_scores(g,
                           [scores EXCEPT ![component_name] =
                                ListEntry([e.items EXCEPT ![item_index + 1] = upd.item])])]

\* a faulty variant: the item after the given position is deleted
delete_component_item_OffByOne(g, component_name, item_index) ==
    LET scores == get_component_scores(g)
        e == Entry(scores, component_name)
    IN  IF e.kind # "list" THEN [ok |-> FALSE, grade |-> g]
        ELSE IF ~(0 <= item_index /\ item_index < Len(e.items))
        THEN [ok |-> FALSE, grade |-> g]
        ELSE [ok |-> TRUE,
              grade |-> set_component_scores(g,
                  [scores EXCEPT ![component_name] =
                       ListEntry(RemoveAt(e.items,
                           IF item_index + 2 <= Len(e.items)
                           THEN item_index + 2 ELSE item_index + 1))])]

\* Grade.delete_component_item (item_index is 0-based)
delete_component_item(g, component_name, item_index) ==
    LET scores == get_component_scores(g)
        e == Entry(scores, component_name)
    IN  IF e.kind # "list" THEN [ok |-> FALSE, grade |-> g]
        ELSE IF ~(0 <= item_index /\ item_index < Len(e.items))
        THEN [ok |-> FALSE, grade |-> g]
        ELSE [ok |-> TRUE,
              grade |-> set_component_scores(g,
                  [scores EXCEPT ![component_name] =
                       ListEntry(RemoveAt(e.items, item_index + 1))])]

\* item.get(key, 0) of the summary
GetOrZero(field) == IF field.k = "missing" THEN Num(0) ELSE field

\* the items the summary counts: max > 0
SummaryValid(items) ==
    SelectSeq(items, LAMBDA it : GetOrZero(it.max).v > 0)

\* an item on which the loop of the summary raises: no dictionary, a null
\* max, or a null score beside a positive max
SummaryRaises(items) ==
    \E i \in DOMAIN items :
        \/ ~items[i].is_dict
        \/ items[i].max.k = "null"
        \/ GetOrZero(items[i].max).v > 0 /\ items[i].score.k = "null"

\* (score / max_score) * 100, exact
ItemPercentage(score, max_score) == Rat(100 * score, max_score)

\* sum(percentages) / len(percentages) of a non-empty list of rationals
Mean(percentages) == RDivInt(RSum(percentages), Len(percentages))

\* a faulty variant: total points over total max
get_component_summary_Pooled(g, component_name, tie) ==
    LET items == get_component_items(g, component_name)
        valid == SummaryValid(items)
        points == SumSeq([i \in DOMAIN valid |-> GetOrZero(valid[i].score).v])
        maxes == SumSeq([i \in DOMAIN valid |-> valid[i].max.v])
    IN  IF items = <<>> THEN [raised |-> "", value |-> None]
        ELSE IF SummaryRaises(items) THEN [raised |-> "TypeError", value |-> None]
        ELSE IF valid = <<>> THEN [raised |-> "", value |-> None]
        ELSE [raised |-> "",
              value |-> Some([item_count |-> Len(items),
                              average_percentage |->
                                  Round2(Rat(100 * points, maxes), tie),
                              total_points |-> points,
                              total_max |-> maxes,
                              items |-> items])]

\* Grade.get_component_summary
get_component_summary(g, component_name, tie) ==
    LET items == get_component_items(g, component_name)
        valid == SummaryValid(items)
        percentages == [i \in DOMAIN valid |->
                           ItemPercentage(GetOrZero(valid[i].score).v, valid[i].max.v)]
    IN  IF items = <<>> THEN [raised |-> "", value |-> None]
        ELSE IF SummaryRaises(items) THEN [raised |-> "TypeError", value |-> None]
        ELSE IF valid = <<>> THEN [raised |-> "", value |-> None]
        ELSE [raised |-> "",
              value |-> Some([item_count |-> Len(items),
                              average_percentage |-> Round2(Mean(percentages), tie),
                              total_points |->
                                  SumSeq([i \in DOMAIN valid |->
                                             GetOrZero(valid[i].score).v]),
                              total_max |->
                                  SumSeq([i \in DOMAIN valid |-> valid[i].max.v]),
                              items |-> items])]

\* the tie directions that matter for get_component_summary
SummaryTies(g, component_name) ==
    LET items == get_component_items(g, component_name)
        valid == SummaryValid(items)
        percentages == [i \in DOMAIN valid |->
                           ItemPercentage(GetOrZero(valid[i].score).v, valid[i].max.v)]
    IN  IF items = <<>> \/ SummaryRaises(items) \/ valid = <<>> THEN {"down"}
        ELSE TiesOf(100 * Mean(percentages)[1], Mean(percentages)[2])

---------------------------------------------------------------------------
(* Grade: the calculator *)

\* the items calculate_grade counts: dictionaries whose score and max are
\* both present and not null, and whose max is not 0
CalcValid(items) ==
    SelectSeq(items, LAMBDA it : /\ it.is_dict
                                 /\ it.score.k = "num"
                                 /\ it.max.k = "num"
                                 /\ it.max.v # 0)

\* a faulty variant: a single number is taken as the percentage itself
ComponentPercentage_ScalarAsPercentage(component, e) ==
    IF e.kind = "absent" THEN None
    ELSE IF e.kind = "list"
    THEN LET valid == CalcValid(e.items)
         IN  IF valid = <<>> THEN None
             ELSE Some(Mean([i \in DOMAIN valid |->
                                ItemPercentage(valid[i].score.v, valid[i].max.v)]))
    ELSE Some(Rat(e.value, 1))

\* the percentage one formula component contributes:
\* None when the component is skipped, else Some(average percentage)
ComponentPercentage(component, e) ==
    IF e.kind = "absent" THEN None
    ELSE IF e.kind = "list"
    THEN LET valid == CalcValid(e.items)
         IN  IF valid = <<>> THEN None
             ELSE Some(Mean([i \in DOMAIN valid |->
                                ItemPercentage(valid[i].score.v, valid[i].max.v)]))
    ELSE LET max_points == IF component.max_points = None THEN 100
                           ELSE Val(component.max_points)
         IN  Some(Rat(100 * e.value, max_points))

\* an exception of the loop over the formula: a component without name or
\* weight (KeyError), a legacy scalar divided by max_points 0
LoopRaises(components, component_data) ==
    \E i \in DOMAIN components :
        \/ components[i].name = None
        \/ components[i].weight = None
        \/ /\ Entry(component_data, Val(components[i].name)).kind = "scalar"
           /\ components[i].max_points = Some(0)

\* the formula components that are not skipped
WithData(components, component_data) ==
    SelectSeq(components, LAMBDA c :
        ComponentPercentage(c, Entry(component_data, Val(c.name))) # None)

\* a faulty variant: the percentages are summed without their weights
TotalWeighted_Unweighted(components, component_data) ==
    LET used == WithData(components, component_data)
    IN  RSum([i \in DOMAIN used |->
                 Val(ComponentPercentage(used[i],
                         Entry(component_data, Val(used[i].name))))])

\* total_weighted: the sum of avg_percentage * weight / 100
TotalWeighted(components, component_data) ==
    LET used == WithData(components, component_data)
    IN  RSum([i \in DOMAIN used |->
                 RDivInt(RMulInt(Val(ComponentPercentage(used[i],
                             Entry(component_data, Val(used[i].name)))),
                         Val(used[i].weight)), 100)])

\* total_weight: the sum of the weights of the components with data
TotalWeightUsed(components, component_data) ==
    LET used == WithData(components, component_data)
    IN  SumSeq([i \in DOMAIN used |-> Val(used[i].weight)])

\* a faulty variant: the weighted sum is divided by the weight total of the
\* components that have data
Percentage_Renormalised(components, component_data, tie) ==
    Round2(RDivInt(RMulInt(TotalWeighted(components, component_data), 100),
                   TotalWeightUsed(components, component_data)), tie)

\* round(total_weighted, 2)
Percentage(components, component_data, tie) ==
    Round2(TotalWeighted(components, component_data), tie)

\* the tie directions that matter for calculate_grade on the row
CalcTies(g, cls) ==
    LET component_data == get_component_scores(g)
        formula == get_grading_formula(cls)
    IN  IF component_data = EmptyScores \/ ~IsDict(formula)
           \/ formula.components = None
           \/ LoopRaises(Val(formula.components), component_data)
        THEN {"down"}
        ELSE LET x == TotalWeighted(Val(formula.components), component_data)
             IN  TiesOf(100 * x[1], x[2])

\* Grade.calculate_grade: the exception raised ("" when none) and the row
\* after the call
calculate_grade(g, cls, tie) ==
    LET component_data == get_component_scores(g)
        formula == get_grading_formula(cls)
    IN  IF component_data = EmptyScores \/ ~IsDict(formula)
           \/ formula.components = None
        THEN [raised |-> "", grade |-> g]
        ELSE
        LET components == Val(formula.components)
        IN  IF LoopRaises(components, component_data)
            THEN [raised |-> "Error", grade |-> g]
            ELSE IF TotalWeightUsed(components, component_data) > 0
            THEN LET percentage == Percentage(components, component_data, tie)
                     converted == convert_to_ph_grade(cls, percentage)
                 IN  IF converted = None
                     THEN [raised |-> "ValueError",
                           grade |-> [g EXCEPT
                               !.calculated_percentage = Some(percentage)]]
                     ELSE [raised |-> "",
                           grade |-> [g EXCEPT
                               !.calculated_percentage = Some(percentage),
                               !.calculated_grade = converted,
                               !.final_grade =
                                   IF g.is_overridden /\ Truthy(g.override_grade)
                                   THEN g.override_grade ELSE converted]]
            ELSE [raised |-> "",
                  grade |-> [g EXCEPT
                      !.calculated_percentage = None,
                      !.calculated_grade = None,
                      !.final_grade = IF ~g.is_overridden THEN None ELSE @]]

\* Grade.set_override
set_override(g, grade, reason) ==
    [g EXCEPT !.is_overridden = TRUE,
              !.override_grade = grade,
              !.override_reason = reason,
              !.final_grade = grade]

\* a faulty variant: the final grade is not set back to the calculated one
remove_override_KeepFinal(g) ==
    [g EXCEPT !.is_overridden = FALSE,
              !.override_grade = None,
              !.override_reason = None]

\* Grade.remove_override
remove_override(g) ==
    [g EXCEPT !.is_overridden = FALSE,
              !.override_grade = None,
              !.override_reason = None,
              !.final_grade = g.calculated_grade]

---------------------------------------------------------------------------
(* The database: rows of class, test, grade and enrollment *)

Students == {1}
Teachers == {1}

\* a Subject row
SubjectRow(units, is_major_subject, grading_formula) ==
    [units |-> units, is_major_subject |-> is_major_subject,
     grading_formula |-> grading_formula]

\* a Class row
ClassRow(teacher_id, units, subject, school_year, semester, grading_formula) ==
    [teacher_id |-> teacher_id, units |-> units, subject |-> subject,
     school_year |-> school_year, semester |-> semester,
     grading_formula |-> grading_formula, grade_conversion_table |-> None]

\* Class.effective_units
effective_units(cls) ==
    IF cls.units # None THEN Val(cls.units)
    ELSE IF cls.subject # None THEN Val(cls.subject).units
    ELSE 3

\* Class.is_major_subject
is_major_subject(cls) ==
    IF cls.subject # None THEN Val(cls.subject).is_major_subject ELSE TRUE

\* the class a grade row belongs to, through its test
ClassIdOf(g) == tests[g.test_id].class_id

\* a faulty variant: only rows with a calculated percentage count
can_edit_formula_CalculatedOnly(class_id) ==
    Cardinality({i \in DOMAIN grades :
                    /\ grades[i].test_id \in DOMAIN tests
                    /\ ClassIdOf(grades[i]) = class_id
                    /\ grades[i].calculated_percentage # None}) = 0

\* a faulty variant: rows of every class count
can_edit_formula_AnyClass(class_id) ==
    Cardinality({i \in DOMAIN grades : grades[i].final_grade # None}) = 0

\* Class.can_edit_formula: no grade row joined to a test of the class has a
\* final grade
can_edit_formula(class_id) ==
    Cardinality({i \in DOMAIN grades :
                    /\ grades[i].test_id \in DOMAIN tests
                    /\ ClassIdOf(grades[i]) = class_id
                    /\ grades[i].final_grade # None}) = 0

\* Grade.query.filter_by(test_id, student_id).first(): the position of the
\* row, 0 when there is none
FirstGrade(student_id, test_id) ==
    IF \E i \in DOMAIN grades :
           grades[i].student_id = student_id /\ grades[i].test_id = test_id
    THEN CHOOSE i \in DOMAIN grades :
           /\ grades[i].student_id = student_id /\ grades[i].test_id = test_id
           /\ \A j \in 1..(i - 1) :
                ~(grades[j].student_id = student_id /\ grades[j].test_id = test_id)
    ELSE 0

\* the final grades of a student's rows in a class, in row order
FinalGradesIn(rows, tst, student_id, class_id) ==
    LET sel == SelectSeq(rows, LAMBDA g :
                   /\ g.test_id \in DOMAIN tst
                   /\ tst[g.test_id].class_id = class_id
                   /\ g.student_id = student_id
                   /\ g.final_grade # None)
    IN  [i \in DOMAIN sel |-> Val(sel[i].final_grade)]

\* a faulty variant: the rows of every class of the student are averaged
calculate_class_average_AllClasses(rows, tst, student_id, class_id, tie) ==
    LET sel == SelectSeq(rows, LAMBDA g :
                   g.student_id = student_id /\ g.final_grade # None)
    IN  IF sel = <<>> THEN None
        ELSE Some(RoundRat(SumSeq([i \in DOMAIN sel |-> Val(sel[i].final_grade)]),
                           Len(sel), tie))

\* calculate_class_average over the given rows
calculate_class_average(rows, tst, student_id, class_id, tie) ==
    LET finals == FinalGradesIn(rows, tst, student_id, class_id)
    IN  IF finals = <<>> THEN None
        ELSE Some(RoundRat(SumSeq(finals), Len(finals), tie))

\* the tie directions that matter for calculate_class_average
AverageTies(rows, tst, student_id, class_id) ==
    LET finals == FinalGradesIn(rows, tst, student_id, class_id)
    IN  IF finals = <<>> THEN {"down"} ELSE TiesOf(SumSeq(finals), Len(finals))

\* update_enrollment_average: the enrollment table after the call
update_enrollment_average(enr, rows, tst, student_id, class_id, tie) ==
    IF <<student_id, class_id>> \in DOMAIN enr
    THEN [enr EXCEPT ![<<student_id, class_id>>].final_grade =
              calculate_class_average(rows, tst, student_id, class_id, tie)]
    ELSE enr

\* the roll-up at the end of update_grade: the cached average is written
\* only when some row has a final grade
UpdateGradeRollup(enr, rows, tst, student_id, class_id, tie) ==
    IF <<student_id, class_id>> \in DOMAIN enr
       /\ FinalGradesIn(rows, tst, student_id, class_id) # <<>>
    THEN [enr EXCEPT ![<<student_id, class_id>>].final_grade =
              calculate_class_average(rows, tst, student_id, class_id, tie)]
    ELSE enr

---------------------------------------------------------------------------
(* Student: GPA *)

\* the rows get_cumulative_gpa gathers: the student's rows with a final grade
CumulativeRows(student_id) ==
    SelectSeq(grades, LAMBDA g : g.student_id = student_id /\ g.final_grade # None)

\* the rows get_semester_gpa gathers: joined to the test and the class of the
\* given school year and semester
SemesterRows(student_id, school_year, semester) ==
    SelectSeq(grades, LAMBDA g :
        /\ g.student_id = student_id
        /\ g.test_id \in DOMAIN tests
        /\ ClassIdOf(g) \in DOMAIN classes
        /\ classes[ClassIdOf(g)].school_year = school_year
        /\ classes[ClassIdOf(g)].semester = semester
        /\ g.final_grade # None)

UnitsOf(g) == effective_units(classes[ClassIdOf(g)])

\* a faulty variant: the units are not used
WeightedGpa_Unweighted(rows, tie) ==
    Some(RoundRat(SumSeq([i \in DOMAIN rows |-> Val(rows[i].final_grade)]),
                  Len(rows), tie))

\* the 'weighted' branch: round(total_points / total_units, 2) if
\* total_units > 0 else None
WeightedGpa(rows, tie) ==
    LET total_points ==
            SumSeq([i \in DOMAIN rows |-> Val(rows[i].final_grade) * UnitsOf(rows[i])])
        total_units == SumSeq([i \in DOMAIN rows |-> UnitsOf(rows[i])])
    IN  IF total_units > 0 THEN Some(RoundRat(total_points, total_units, tie))
        ELSE None

\* the 'simple' branch
SimpleGpa(rows, tie) ==
    Some(RoundRat(SumSeq([i \in DOMAIN rows |-> Val(rows[i].final_grade)]),
                  Len(rows), tie))

\* a faulty variant: the major flag of the class is not used
MajorGpa_AllClasses(rows, tie) ==
    Some(RoundRat(SumSeq([i \in DOMAIN rows |-> Val(rows[i].final_grade)]),
                  Len(rows), tie))

\* the 'major_only' branch
MajorGpa(rows, tie) ==
    LET major_grades ==
            SelectSeq(rows, LAMBDA g : is_major_subject(classes[ClassIdOf(g)]))
    IN  IF major_grades = <<>> THEN None ELSE SimpleGpa(major_grades, tie)

\* the branches shared by the two GPA methods
GpaOf(rows, calculation_method, tie) ==
    IF rows = <<>> THEN None
    ELSE IF calculation_method = "weighted" THEN WeightedGpa(rows, tie)
    ELSE IF calculation_method = "simple" THEN SimpleGpa(rows, tie)
    ELSE IF calculation_method = "major_only" THEN MajorGpa(rows, tie)
    ELSE None

\* Student.get_semester_gpa
get_semester_gpa(student_id, school_year, semester, calculation_method, tie) ==
    GpaOf(SemesterRows(student_id, school_year, semester), calculation_method, tie)

\* Student.get_cumulative_gpa
get_cumulative_gpa(student_id, calculation_method, tie) ==
    GpaOf(CumulativeRows(student_id), calculation_method, tie)

---------------------------------------------------------------------------
(* Requests of the teacher blueprint and calls of the model's methods.     *)
(* Each takes the set its inputs are drawn from; last records the          *)
(* operation of the step, its arguments and what it reported.              *)

Comp(name, weight) == Component(Some(name), Some(weight), None)
CompMax(name, weight, max_points) == Component(Some(name), Some(weight), Some(max_points))

FormulaOf(components) == Formula(Some(components), None, None)

\* the fields of the create_class form other than the formula
ClassForm(subject_name, units, section, school_year, semester, student_ids) ==
    [subject_name |-> subject_name, units |-> units, section |-> section,
     school_year |-> school_year, semester |-> semester, student_ids |-> student_ids]

\* the validation of the form fields before the formula: "" when they pass
FormError(form) ==
    IF Strip(form.subject_name) = <<>> THEN "Subject name is required."
    ELSE IF form.units = None \/ Val(form.units) = 0 \/ Val(form.units) < 1
    THEN "Units must be at least 1."
    ELSE IF Strip(form.section) = <<>> \/ form.school_year = "" \/ form.semester = ""
    THEN "Section, school year, and semester are required."
    ELSE ""

\* the checks of create_class on one component: "" when they pass
ComponentError(comp) ==
    IF comp.name = None THEN "All components must have a name"
    ELSE IF Val(comp.name) = <<>> THEN "All components must have a name"
    ELSE IF Strip(Val(comp.name)) = <<>> THEN "All components must have a name"
    ELSE IF WeightOrZero(comp) < 0 THEN "Component weights must be between 0 and 100"
    ELSE IF WeightOrZero(comp) > 100 THEN "Component weights must be between 0 and 100"
    ELSE IF comp.max_points = None THEN "Max points must be at least 1"
    ELSE IF Val(comp.max_points) < 1 THEN "Max points must be at least 1"
    ELSE ""

\* the validation of the formula in create_class: "" when it passes
CreateFormulaError(text) ==
    IF text = None THEN "Grading formula is required."
    ELSE IF ~Parses(text) THEN "Invalid grading formula format."
    ELSE LET formula == Loaded(text)
         IN  IF ~IsDict(formula) THEN "Invalid formula structure"
             ELSE IF formula.components = None THEN "Invalid formula structure"
             ELSE LET components == Val(formula.components)
                      failing == {i \in DOMAIN components :
                                     ComponentError(components[i]) # ""}
                  IN  IF Len(components) < 1 THEN "At least one component is required"
                      ELSE IF TotalWeight(components) # 100
                      THEN "Component weights must total 100%"
                      ELSE IF failing # {}
                      THEN ComponentError(components[
                               CHOOSE i \in failing : \A j \in failing : i <= j])
                      ELSE ""

\* the id of the next inserted row of a table with the given ids
NextId(ids) == CHOOSE n \in 1..(Cardinality(ids) + 1) : n \notin ids

\* POST /classes/create
CreateClass(forms, texts) ==
    \E teacher \in Teachers, form \in forms, text \in texts :
        LET err == IF FormError(form) # "" THEN FormError(form)
                   ELSE CreateFormulaError(text)
            id == NextId(DOMAIN classes)
        IN  IF err # ""
            THEN /\ last' = [op |-> "create_class", text |-> text,
                             result |-> "error", class_id |-> 0]
                 /\ UNCHANGED <<classes, tests, grades, enrollments, requests>>
            ELSE /\ Cardinality(DOMAIN classes) < MaxClasses
                 /\ classes' = (id :> ClassRow(teacher, form.units, None,
                                               form.school_year, form.semester, text))
                               @@ classes
                 /\ enrollments' =
                        [p \in {<<st, id>> : st \in form.student_ids} |->
                            [final_grade |-> None]] @@ enrollments
                 /\ last' = [op |-> "create_class", text |-> text,
                             result |-> "created", class_id |-> id]
                 /\ UNCHANGED <<tests, grades, requests>>

\* Class.query.filter_by(id, teacher_id).first()
OwnClass(teacher, class_id) ==
    class_id \in DOMAIN classes /\ classes[class_id].teacher_id = teacher

\* POST /classes/<class_id>/formula
UpdateFormula(formulas) ==
    \E teacher \in Teachers, class_id \in 1..MaxClasses, formula \in formulas :
        LET call == set_grading_formula(classes[class_id], formula)
            status == IF ~OwnClass(teacher, class_id) THEN 404
                      ELSE IF ~can_edit_formula(class_id) THEN 403
                      ELSE IF call.raised # "" THEN 400
                      ELSE 200
        IN  /\ classes' = IF status = 200
                          THEN [classes EXCEPT ![class_id] = call.cls]
                          ELSE classes
            /\ last' = [op |-> "update_formula", class_id |-> class_id,
                        formula |-> formula, status |-> status]
            /\ UNCHANGED <<tests, grades, enrollments, requests>>

\* a call of Class.set_grading_formula on a class row, outside any request
SetGradingFormula(formulas) ==
    \E class_id \in DOMAIN classes, formula \in formulas :
        LET call == set_grading_formula(classes[class_id], formula)
        IN  /\ classes' = [classes EXCEPT ![class_id] = call.cls]
            /\ last' = [op |-> "set_grading_formula", class_id |-> class_id,
                        formula |-> formula, raised |-> call.raised]
            /\ UNCHANGED <<tests, grades, enrollments, requests>>

\* Test.query.join(Class).filter(Test.id, Class.teacher_id).first()
OwnTest(teacher, test_id) ==
    test_id \in DOMAIN tests /\ OwnClass(teacher, tests[test_id].class_id)

\* POST /grading/create-test
CreateTest ==
    \E teacher \in Teachers, class_id \in 1..MaxClasses, title \in {<<"T">>, <<" ">>} :
        LET ok == Strip(title) # <<>> /\ OwnClass(teacher, class_id)
            id == NextId(DOMAIN tests)
        IN  /\ ok => Cardinality(DOMAIN tests) < MaxTests
            /\ tests' = IF ok THEN (id :> [class_id |-> class_id]) @@ tests ELSE tests
            /\ last' = [op |-> "create_test", class_id |-> class_id,
                        result |-> IF ok THEN "created" ELSE "error"]
            /\ UNCHANGED <<classes, grades, enrollments, requests>>

\* POST /grading/delete-test: the delete cascades to the grade rows of the test
DeleteTest ==
    \E teacher \in Teachers, test_id \in 1..MaxTests :
        LET ok == OwnTest(teacher, test_id)
        IN  /\ tests' = IF ok THEN [t \in DOMAIN tests \ {test_id} |-> tests[t]]
                        ELSE tests
            /\ grades' = IF ok THEN SelectSeq(grades, LAMBDA g : g.test_id # test_id)
                         ELSE grades
            /\ last' = [op |-> "delete_test", test_id |-> test_id,
                        result |-> IF ok THEN "deleted" ELSE "error"]
            /\ UNCHANGED <<classes, enrollments, requests>>

\* the row of (student, test) the request works on: the one found, or a new
\* one when there is none
GetOrCreate(student_id, test_id) ==
    LET i == FirstGrade(student_id, test_id)
    IN  IF i = 0 THEN NewGrade(student_id, test_id) ELSE grades[i]

\* the grade rows after the commit of that row
Committed(student_id, test_id, row) ==
    LET i == FirstGrade(student_id, test_id)
    IN  IF i = 0 THEN Append(grades, row) ELSE [grades EXCEPT ![i] = row]

\* the assignments of update_grade to the row
SetGradeValue(g, grade_value) ==
    [g EXCEPT !.final_grade = grade_value, !.calculated_grade = grade_value]

\* POST /grading/update
UpdateGrade(grade_values) ==
    \E teacher \in Teachers, student_id \in Students, test_id \in 1..MaxTests,
       grade_value \in grade_values :
        IF ~OwnTest(teacher, test_id)
        THEN /\ last' = [op |-> "update_grade", test_id |-> test_id,
                         grade |-> grade_value, status |-> 404]
             /\ UNCHANGED <<classes, tests, grades, enrollments, requests>>
        ELSE LET rows == Committed(student_id, test_id,
                        SetGradeValue(GetOrCreate(student_id, test_id), grade_value))
                 class_id == tests[test_id].class_id
             IN  /\ grades' = rows
                 /\ \E tie \in AverageTies(rows, tests, student_id, class_id) :
                        enrollments' = UpdateGradeRollup(enrollments, rows, tests,
                                                         student_id, class_id, tie)
                 /\ last' = [op |-> "update_grade", test_id |-> test_id,
                             grade |-> grade_value, status |-> 200]
                 /\ UNCHANGED <<classes, tests, requests>>

\* POST /grading/update-components
UpdateComponents(ledgers) ==
    \E teacher \in Teachers, student_id \in Students, test_id \in 1..MaxTests,
       components \in ledgers :
        IF ~OwnTest(teacher, test_id)
        THEN /\ last' = [op |-> "update_components", test_id |-> test_id,
                         components |-> components, status |-> 500]
             /\ UNCHANGED <<classes, tests, grades, enrollments, requests>>
        ELSE LET class_id == tests[test_id].class_id
                 saved == set_component_scores(GetOrCreate(student_id, test_id),
                                               components)
             IN  \E tie \in CalcTies(saved, classes[class_id]) :
                   LET call == calculate_grade(saved, classes[class_id], tie)
                       rows == Committed(student_id, test_id, call.grade)
                   IN  IF call.raised # ""
                       THEN /\ last' = [op |-> "update_components",
                                        test_id |-> test_id,
                                        components |-> components, status |-> 500]
                            /\ UNCHANGED <<classes, tests, grades, enrollments, requests>>
                       ELSE /\ grades' = rows
                            /\ \E tie2 \in AverageTies(rows, tests, student_id, class_id) :
                                 enrollments' = update_enrollment_average(enrollments,
                                     rows, tests, student_id, class_id, tie2)
                            /\ last' = [op |-> "update_components",
                                        test_id |-> test_id,
                                        components |-> components, status |-> 200]
                            /\ UNCHANGED <<classes, tests, requests>>

\* a call of Grade.calculate_grade on the row at position i with its class
CalculateGrade ==
    \E i \in DOMAIN grades :
      \E tie \in CalcTies(grades[i], classes[ClassIdOf(grades[i])]) :
        LET call == calculate_grade(grades[i], classes[ClassIdOf(grades[i])], tie)
        IN  /\ grades' = [grades EXCEPT ![i] = call.grade]
            /\ last' = [op |-> "calculate_grade", row |-> i, raised |-> call.raised]
            /\ UNCHANGED <<classes, tests, enrollments, requests>>

\* a call of Grade.set_override on the row at position i
SetOverride(override_grades) ==
    \E i \in DOMAIN grades, grade \in override_grades :
        /\ grades' = [grades EXCEPT ![i] = set_override(@, grade, Some("reason"))]
        /\ last' = [op |-> "set_override", row |-> i, grade |-> grade]
        /\ UNCHANGED <<classes, tests, enrollments, requests>>

\* a call of Grade.remove_override on the row at position i
RemoveOverride ==
    \E i \in DOMAIN grades :
        /\ grades' = [grades EXCEPT ![i] = remove_override(@)]
        /\ last' = [op |-> "remove_override", row |-> i]
        /\ UNCHANGED <<classes, tests, enrollments, requests>>

\* a call of Grade.set_component_scores on the row at position i
SetComponentScores(ledgers) ==
    \E i \in DOMAIN grades, scores \in ledgers :
        /\ grades' = [grades EXCEPT ![i] = set_component_scores(@, scores)]
        /\ last' = [op |-> "set_component_scores", row |-> i]
        /\ UNCHANGED <<classes, tests, enrollments, requests>>

\* the arguments of a call of add_component_item
AddArgs(score, max_score, item_name, item_date) ==
    [score |-> score, max_score |-> max_score, item_name |-> item_name,
     item_date |-> item_date]

\* a call of Grade.add_component_item on the row at position i; a component
\* holds at most MaxItems items
AddComponentItem(inputs, components, dates) ==
    \E i \in DOMAIN grades, component \in components, a \in inputs, now \in dates :
        LET call == add_component_item(grades[i], component, a.score, a.max_score,
                                       a.item_name, a.item_date, now)
        IN  /\ call.raised = ""
                   => Len(get_component_items(grades[i], component)) < MaxItems
            /\ grades' = [grades EXCEPT ![i] = call.grade]
            /\ last' = [op |-> "add_component_item", row |-> i,
                        component |-> component, args |-> a, now |-> now,
                        raised |-> call.raised]
            /\ UNCHANGED <<classes, tests, enrollments, requests>>

\* a call of Grade.update_component_item on the row at position i
UpdateComponentItem(inputs, components) ==
    \E i \in DOMAIN grades, component \in components, item_index \in -1..MaxItems,
       a \in inputs :
        LET call == update_component_item(grades[i], component, item_index, a.score,
                                          a.max_score, a.item_name, a.item_date)
        IN  /\ grades' = [grades EXCEPT ![i] = call.grade]
            /\ last' = [op |-> "update_component_item", row |-> i,
                        component |-> component, item_index |-> item_index,
                        args |-> a, raised |-> call.raised, ok |-> call.ok]
            /\ UNCHANGED <<classes, tests, enrollments, requests>>

\* a call of Grade.delete_component_item on the row at position i
DeleteComponentItem(components) ==
    \E i \in DOMAIN grades, component \in components, item_index \in -1..MaxItems :
        LET call == delete_component_item(grades[i], component, item_index)
        IN  /\ grades' = [grades EXCEPT ![i] = call.grade]
            /\ last' = [op |-> "delete_component_item", row |-> i,
                        component |-> component, item_index |-> item_index,
                        ok |-> call.ok]
            /\ UNCHANGED <<classes, tests, enrollments, requests>>

\* a call of Grade.get_component_items on the row at position i
GetComponentItems(components) ==
    \E i \in DOMAIN grades, component \in components :
        /\ last' = [op |-> "get_component_items", row |-> i,
                    component |-> component,
                    value |-> get_component_items(grades[i], component)]
        /\ UNCHANGED <<classes, tests, grades, enrollments, requests>>

\* a call of Grade.get_component_summary on the row at position i
GetComponentSummary(components) ==
    \E i \in DOMAIN grades, component \in components :
      \E tie \in SummaryTies(grades[i], component) :
        LET call == get_component_summary(grades[i], component, tie)
        IN  /\ last' = [op |-> "get_component_summary", row |-> i,
                        component |-> component, raised |-> call.raised,
                        value |-> call.value]
            /\ UNCHANGED <<classes, tests, grades, enrollments, requests>>

\* a call of Class.get_grading_formula on a class
GetGradingFormula ==
    \E class_id \in DOMAIN classes :
        /\ last' = [op |-> "get_grading_formula", class_id |-> class_id,
                    value |-> get_grading_formula(classes[class_id])]
        /\ UNCHANGED <<classes, tests, grades, enrollments, requests>>

\* a call of Class.convert_to_ph_grade on a class
ConvertToPhGrade(percentages) ==
    \E class_id \in DOMAIN classes, percentage \in percentages :
        /\ last' = [op |-> "convert_to_ph_grade", class_id |-> class_id,
                    percentage |-> percentage,
                    grade |-> convert_to_ph_grade(classes[class_id], percentage)]
        /\ UNCHANGED <<classes, tests, grades, enrollments, requests>>

\* a call of Student.get_cumulative_gpa
GetCumulativeGpa(methods) ==
    \E student_id \in Students, calculation_method \in methods, tie \in TieModes :
        /\ last' = [op |-> "get_cumulative_gpa", student_id |-> student_id,
                    school_year |-> "", semester |-> "",
                    calculation_method |-> calculation_method,
                    value |-> get_cumulative_gpa(student_id, calculation_method, tie)]
        /\ UNCHANGED <<classes, tests, grades, enrollments, requests>>

\* a call of Student.get_semester_gpa
GetSemesterGpa(methods, school_years, semesters) ==
    \E student_id \in Students, calculation_method \in methods, tie \in TieModes,
       school_year \in school_years, semester \in semesters :
        /\ last' = [op |-> "get_semester_gpa", student_id |-> student_id,
                    school_year |-> school_year, semester |-> semester,
                    calculation_method |-> calculation_method,
                    value |-> get_semester_gpa(student_id, school_year, semester,
                                               calculation_method, tie)]
        /\ UNCHANGED <<classes, tests, grades, enrollments, requests>>

\* a call of update_enrollment_average for a student and a class
UpdateEnrollmentAverage(class_ids) ==
    \E student_id \in Students, class_id \in class_ids :
      \E tie \in AverageTies(grades, tests, student_id, class_id) :
        /\ enrollments' = update_enrollment_average(enrollments, grades, tests,
                                                    student_id, class_id, tie)
        /\ last' = [op |-> "update_enrollment_average",
                    student_id |-> student_id, class_id |-> class_id]
        /\ UNCHANGED <<classes, tests, grades, requests>>

---------------------------------------------------------------------------
(* The requests update_grade and update_components step by step, at the    *)
(* granularity of their database transactions: the look-up of the grade    *)
(* record (with the assignments made on the session's object), the commit, *)
(* the queries of the roll-up and its commit.  A request holds what its    *)
(* session read; requests that have returned stay in the table with pc     *)
(* "done".                                                                 *)

MaxRequests == 2

\* a request after its look-up: row is the position of the record found (0
\* when a new one was added to the session), loaded the record as read and
\* object the session's object after the assignments of the handler
Request(op, student_id, test_id, row, loaded, object) ==
    [op |-> op, student_id |-> student_id, test_id |-> test_id,
     class_id |-> tests[test_id].class_id,
     row |-> row, loaded |-> loaded, object |-> object,
     pc |-> "looked_up", seen |-> None, average |-> None]

\* the row after the UPDATE of a commit: the columns whose value on the
\* session's object differs from the value loaded are written
Flushed(stored, loaded, object) ==
    [column \in DOMAIN stored |->
        IF object[column] # loaded[column] THEN object[column] ELSE stored[column]]

\* update_grade up to its first commit: the test is verified, the grade
\* record is looked up or created and the grade is assigned
LookUpForGrade(grade_values, test_ids) ==
    \E teacher \in Teachers, student_id \in Students, test_id \in test_ids,
       grade_value \in grade_values :
        IF ~OwnTest(teacher, test_id)
        THEN /\ last' = [op |-> "look_up", request |-> 0, status |-> 404]
             /\ UNCHANGED <<classes, tests, grades, enrollments, requests>>
        ELSE LET loaded == GetOrCreate(student_id, test_id)
                 id == NextId(DOMAIN requests)
             IN  /\ Cardinality(DOMAIN requests) < MaxRequests
                 /\ requests' =
                        (id :> Request("update_grade", student_id, test_id,
                                       FirstGrade(student_id, test_id), loaded,
                                       SetGradeValue(loaded, grade_value)))
                        @@ requests
                 /\ last' = [op |-> "look_up", request |-> id, status |-> 0]
                 /\ UNCHANGED <<classes, tests, grades, enrollments>>

\* update_components up to its first commit: the test is verified, the grade
\* record is looked up or created, the components are stored on it and the
\* grade is calculated; an exception rolls back and answers 500
LookUpForComponents(ledgers, test_ids) ==
    \E teacher \in Teachers, student_id \in Students, test_id \in test_ids,
       components \in ledgers :
        IF ~OwnTest(teacher, test_id)
        THEN /\ last' = [op |-> "look_up", request |-> 0, status |-> 500]
             /\ UNCHANGED <<classes, tests, grades, enrollments, requests>>
        ELSE LET loaded == GetOrCreate(student_id, test_id)
                 cls == classes[tests[test_id].class_id]
                 saved == set_component_scores(loaded, components)
                 id == NextId(DOMAIN requests)
             IN  \E tie \in CalcTies(saved, cls) :
                   LET call == calculate_grade(saved, cls, tie)
                   IN  IF call.raised # ""
                       THEN /\ last' = [op |-> "look_up", request |-> 0,
                                        status |-> 500]
                            /\ UNCHANGED <<classes, tests, grades, enrollments,
                                           requests>>
                       ELSE /\ Cardinality(DOMAIN requests) < MaxRequests
                            /\ requests' =
                                   (id :> Request("update_components", student_id,
                                                  test_id,
                                                  FirstGrade(student_id, test_id),
                                                  loaded, call.grade))
                                   @@ requests
                            /\ last' = [op |-> "look_up", request |-> id,
                                        status |-> 0]
                            /\ UNCHANGED <<classes, tests, grades, enrollments>>

\* db.session.commit() of the grade record: an INSERT of the record added to
\* the session, an UPDATE of the record found
CommitGrade ==
    \E r \in DOMAIN requests :
        /\ requests[r].pc = "looked_up"
        /\ grades' = IF requests[r].row = 0
                     THEN Append(grades, requests[r].object)
                     ELSE [grades EXCEPT ![requests[r].row] =
                              Flushed(@, requests[r].loaded, requests[r].object)]
        /\ requests' = [requests EXCEPT ![r].pc = "committed"]
        /\ last' = [op |-> "commit", request |-> r, status |-> 0]
        /\ UNCHANGED <<classes, tests, enrollments>>

\* the queries of the roll-up: the enrollment and the records with a final
\* grade; update_grade goes on to write only when it found such records,
\* update_enrollment_average whenever there is an enrollment
ReadAverage ==
    \E r \in DOMAIN requests :
        LET q == requests[r]
            pair == <<q.student_id, q.class_id>>
        IN  /\ q.pc = "committed"
            /\ \E tie \in AverageTies(grades, tests, q.student_id, q.class_id) :
                 LET average == calculate_class_average(grades, tests, q.student_id,
                                                        q.class_id, tie)
                     writes == /\ pair \in DOMAIN enrollments
                               /\ q.op = "update_grade" => average # None
                 IN  requests' = [requests EXCEPT ![r] =
                         [q EXCEPT !.pc = IF writes THEN "read" ELSE "done",
                                   !.seen = IF pair \in DOMAIN enrollments
                                            THEN enrollments[pair].final_grade
                                            ELSE None,
                                   !.average = average]]
            /\ last' = [op |-> "read_average", request |-> r, status |-> 0]
            /\ UNCHANGED <<classes, tests, grades, enrollments>>

\* enrollment.final_grade = average and its commit, after which the request
\* answers
WriteAverage ==
    \E r \in DOMAIN requests :
        LET q == requests[r]
            pair == <<q.student_id, q.class_id>>
        IN  /\ q.pc = "read"
            /\ enrollments' = IF q.average # q.seen
                              THEN [enrollments EXCEPT ![pair].final_grade = q.average]
                              ELSE enrollments
            /\ requests' = [requests EXCEPT ![r].pc = "done"]
            /\ last' = [op |-> "write_average", request |-> r, status |-> 200]
            /\ UNCHANGED <<classes, tests, grades>>

---------------------------------------------------------------------------
(* The application: requests on the seeded data (one class without a       *)
(* formula of its own, units from its subject, one test, the student       *)
(* enrolled).                                                              *)

Scores(q, e, x) == [c \in CompKeys |->
    IF c = Quizzes THEN q ELSE IF c = Exams THEN e ELSE x]

OneItem(score, max) == ListEntry(<<Item(Num(score), Num(max), <<"i">>, "2024-09-05")>>)

SeedSubject == SubjectRow(3, TRUE, None)

SeedClass == ClassRow(1, None, Some(SeedSubject), "2024-2025", "1st", None)

GoodForm == ClassForm(<<"S">>, Some(3), <<"A">>, "2024-2025", "1st", {1})
NoUnitsForm == ClassForm(<<"S">>, Some(0), <<"A">>, "2024-2025", "1st", {1})

F_3070_max == FormulaOf(<<CompMax(Quizzes, 30, 100), CompMax(Exams, 70, 100)>>)
F_3070 == FormulaOf(<<Comp(Quizzes, 30), Comp(Exams, 70)>>)
F_3030_max == FormulaOf(<<CompMax(Quizzes, 30, 100), CompMax(Exams, 30, 100)>>)

AppFormulas == {F_3070_max, F_3070, F_3030_max}
AppGrades == {None, Some(150)}
AppLedgers == {EmptyScores, Scores(AbsentEntry, OneItem(90, 100), AbsentEntry)}

Init ==
    /\ classes = (1 :> SeedClass)
    /\ tests = (1 :> [class_id |-> 1])
    /\ grades = <<>>
    /\ enrollments = (<<1, 1>> :> [final_grade |-> None])
    /\ last = [op |-> "init"]
    /\ requests = <<>>

create_class == CreateClass({GoodForm, NoUnitsForm}, {Some(JsonText(f)) : f \in AppFormulas})
update_formula == UpdateFormula(AppFormulas)
create_test == CreateTest
delete_test == DeleteTest
update_grade == UpdateGrade(AppGrades)
update_components == UpdateComponents(AppLedgers)
Call_calculate_grade == CalculateGrade

Next ==
    \/ create_class
    \/ update_formula
    \/ create_test
    \/ delete_test
    \/ update_grade
    \/ update_components
    \/ Call_calculate_grade

Spec == Init /\ [][Next]_vars

---------------------------------------------------------------------------
(* The formula writers: create_class, update_formula and direct calls of   *)
(* Class.set_grading_formula, with formulas of every shape the checks      *)
(* distinguish.                                                            *)

F_100 == FormulaOf(<<Comp(Exams, 100)>>)
F_6060 == FormulaOf(<<Comp(Quizzes, 60), Comp(Exams, 60)>>)
F_Empty == FormulaOf(<<>>)
F_NoWeight_max ==
    FormulaOf(<<Component(Some(Quizzes), None, Some(100)), CompMax(Exams, 100, 100)>>)
F_Wide == FormulaOf(<<Comp(Quizzes, 150), Comp(Exams, -50)>>)
F_Wide_max == FormulaOf(<<CompMax(Quizzes, 150, 100), CompMax(Exams, -50, 100)>>)
F_Blank == FormulaOf(<<Comp(<<>>, 100)>>)
F_Blank_max == FormulaOf(<<CompMax(<<>>, 100, 100)>>)

FormulaInputs ==
    {NotADict, Formula(None, None, None), F_Empty, F_100, F_3070, F_3030_max,
     F_6060, F_NoWeight_max, F_Wide, F_Blank}

FormulaTexts ==
    {None, Some(BadText)}
    \cup {Some(JsonText(f)) : f \in {NotADict, F_Empty, F_3070_max, F_3070,
                                     F_3030_max, F_NoWeight_max, F_Wide_max,
                                     F_Blank_max}}

InitFormula == Init

Formula_create_class == CreateClass({GoodForm}, FormulaTexts)
Formula_update_formula == UpdateFormula(FormulaInputs)
Formula_set_grading_formula == SetGradingFormula(FormulaInputs)
Formula_update_grade == UpdateGrade(AppGrades)

NextFormula ==
    \/ Formula_create_class
    \/ Formula_update_formula
    \/ Formula_set_grading_formula
    \/ Formula_update_grade

SpecFormula == InitFormula /\ [][NextFormula]_vars

---------------------------------------------------------------------------
(* Reading the formula: two classes whose formula column is empty, holds a *)
(* text that does not parse or a formula, with or without a subject whose  *)
(* own column is empty, does not parse, or holds a list or a dictionary.   *)

StoredFormulas == {None, Some(BadText), Some(JsonText(F_3070)), Some(JsonText(F_100))}

SubjectFormulas ==
    {None, Some(BadText), Some(JsonText(JsonList(<<CompMax(Quizzes, 100, 100)>>))),
     Some(JsonText(F_3070_max))}

FormulaSubjects == {None} \cup {Some(SubjectRow(3, TRUE, f)) : f \in SubjectFormulas}

InitRead ==
    /\ classes \in {(1 :> ClassRow(1, Some(3), s1, "2024-2025", "1st", f1))
                     @@ (2 :> ClassRow(1, Some(3), s2, "2024-2025", "1st", f2)) :
                        s1 \in FormulaSubjects, f1 \in StoredFormulas,
                        s2 \in {None}, f2 \in {None, Some(JsonText(F_3070))}}
    /\ tests = (1 :> [class_id |-> 1])
    /\ grades = <<>>
    /\ enrollments = (<<1, 1>> :> [final_grade |-> None])
    /\ last = [op |-> "init"]
    /\ requests = <<>>

Read_get_grading_formula == GetGradingFormula
Read_set_grading_formula == SetGradingFormula({F_100, F_6060, F_3070_max})

NextRead ==
    \/ Read_get_grading_formula
    \/ Read_set_grading_formula

SpecRead == InitRead /\ [][NextRead]_vars

---------------------------------------------------------------------------
(* The score ledger of one grade record: the item operations, whole        *)
(* dictionaries stored through set_component_scores, and the summary.      *)

ItemA(score, max) == Item(score, max, <<"a">>, "2024-09-05")

\* calls of add_component_item: valid ones and one for each refusal
AddInputs ==
    {AddArgs(Some(20), Some(25), Some(<<"a">>), Some("2024-09-05")),
     AddArgs(Some(0), Some(10), Some(<<" ", "a", " ">>), None),
     AddArgs(Some(25), Some(25), Some(<<"a", " ">>), Some("")),
     AddArgs(None, Some(25), Some(<<"a">>), None),
     AddArgs(Some(20), None, Some(<<"a">>), None),
     AddArgs(Some(-1), Some(25), Some(<<"a">>), None),
     AddArgs(Some(20), Some(10), Some(<<"a">>), None),
     AddArgs(Some(0), Some(0), Some(<<"a">>), None),
     AddArgs(Some(-1), Some(-5), Some(<<"a">>), None),
     AddArgs(Some(20), Some(25), None, None),
     AddArgs(Some(20), Some(25), Some(<<>>), None),
     AddArgs(Some(20), Some(25), Some(<<" ", " ">>), None)}

\* dictionaries stored whole, as update_components stores what it is sent
LedgerInputs ==
    {EmptyScores,
     Scores(ListEntry(<<ItemA(Num(20), Num(25)), ItemA(Num(25), Num(30))>>),
            ListEntry(<<ItemA(Num(1), Num(3))>>), AbsentEntry),
     Scores(ScalarEntry(85), ListEntry(<<>>), AbsentEntry),
     Scores(ListEntry(<<ItemA(Num(5), Num(0)), ItemA(Num(20), Num(25))>>),
            ListEntry(<<ItemA(Num(5), Missing), ItemA(Num(5), Num(-10))>>),
            ListEntry(<<ItemA(Missing, Num(10))>>)),
     Scores(ListEntry(<<ItemA(Null, Num(10))>>),
            ListEntry(<<ItemA(Num(5), Null)>>),
            ListEntry(<<NonDictItem>>))}

InitLedger ==
    /\ classes = (1 :> SeedClass)
    /\ tests = (1 :> [class_id |-> 1])
    /\ grades = <<NewGrade(1, 1)>>
    /\ enrollments = (<<1, 1>> :> [final_grade |-> None])
    /\ last = [op |-> "init"]
    /\ requests = <<>>

Ledger_add_component_item == AddComponentItem(AddInputs, {Quizzes}, {"2024-10-01"})
Ledger_delete_component_item == DeleteComponentItem({Quizzes, Exams})
Ledger_set_component_scores == SetComponentScores(LedgerInputs)
Ledger_get_component_summary == GetComponentSummary(CompKeys)

NextLedger ==
    \/ Ledger_add_component_item
    \/ Ledger_delete_component_item
    \/ Ledger_set_component_scores
    \/ Ledger_get_component_summary

SpecLedger == InitLedger /\ [][NextLedger]_vars

---------------------------------------------------------------------------
(* The item operations on the ledger of one grade record: items are added, *)
(* updated and deleted by position, on lists built by add_component_item   *)
(* and on dictionaries stored whole.                                       *)

ItemsAddInputs ==
    {AddArgs(Some(20), Some(25), Some(<<"a">>), Some("2024-09-05")),
     AddArgs(Some(20), Some(10), Some(<<"a">>), None)}

\* calls of update_component_item: fields alone, and a failure at each
\* check after other fields were supplied
UpdateInputs ==
    {AddArgs(Some(5), None, None, None),
     AddArgs(None, None, Some(<<" ", "b">>), Some("2024-11-11")),
     AddArgs(Some(-1), Some(30), None, None),
     AddArgs(Some(5), Some(0), Some(<<"b">>), None),
     AddArgs(Some(40), None, None, Some("2024-11-11")),
     AddArgs(None, Some(10), None, None),
     AddArgs(Some(5), Some(30), Some(<<" ">>), Some("2024-11-11"))}

ItemsLedgers ==
    {Scores(ScalarEntry(85), ListEntry(<<ItemA(Num(1), Num(3))>>), AbsentEntry),
     Scores(ListEntry(<<ItemA(Num(5), Missing), NonDictItem>>),
            ListEntry(<<ItemA(Num(1), Num(3))>>), ScalarEntry(40))}

Items_add_component_item == AddComponentItem(ItemsAddInputs, {Quizzes}, {"2024-10-01"})
Items_update_component_item == UpdateComponentItem(UpdateInputs, {Quizzes})
Items_delete_component_item == DeleteComponentItem({Quizzes})
Items_set_component_scores == SetComponentScores(ItemsLedgers)

NextItems ==
    \/ Items_add_component_item
    \/ Items_update_component_item
    \/ Items_delete_component_item
    \/ Items_set_component_scores

SpecItems == InitLedger /\ [][NextItems]_vars

---------------------------------------------------------------------------
(* The calculator on one grade record of a class whose formula was stored  *)
(* by create_class or set_grading_formula: ledgers stored whole, then      *)
(* calculate_grade, the override calls and the update_grade request.       *)

F_0_100_max == FormulaOf(<<CompMax(Quizzes, 0, 100), CompMax(Exams, 100, 100)>>)
F_304030_max ==
    FormulaOf(<<CompMax(Quizzes, 30, 100), CompMax(Exams, 40, 100),
                CompMax(Extra, 30, 50)>>)

CalcFormulas == {F_3070_max, F_0_100_max, F_304030_max, F_Wide}

CalcLedgers ==
    {EmptyScores,
     Scores(AbsentEntry, OneItem(90, 100), AbsentEntry),
     Scores(OneItem(10, 10), AbsentEntry, AbsentEntry),
     Scores(ListEntry(<<ItemA(Num(20), Num(25)), ItemA(Num(25), Num(30))>>),
            OneItem(85, 100), ScalarEntry(40)),
     Scores(ListEntry(<<ItemA(Null, Num(10)), ItemA(Num(5), Num(0))>>),
            ListEntry(<<>>), AbsentEntry)}

OverrideGrades == {Some(150), Some(300)}

InitCalc ==
    /\ classes \in {(1 :> [SeedClass EXCEPT !.grading_formula = Some(JsonText(f))]) :
                        f \in CalcFormulas}
    /\ tests = (1 :> [class_id |-> 1])
    /\ grades = <<NewGrade(1, 1)>>
    /\ enrollments = (<<1, 1>> :> [final_grade |-> None])
    /\ last = [op |-> "init"]
    /\ requests = <<>>

Calc_set_component_scores == SetComponentScores(CalcLedgers)
Calc_calculate_grade == CalculateGrade
Calc_set_override == SetOverride(OverrideGrades)
Calc_remove_override == RemoveOverride
Calc_update_grade == UpdateGrade({Some(200)})

NextCalc ==
    \/ Calc_set_component_scores
    \/ Calc_calculate_grade
    \/ Calc_set_override
    \/ Calc_remove_override
    \/ Calc_update_grade

SpecCalc == InitCalc /\ [][NextCalc]_vars

---------------------------------------------------------------------------
(* The conversion of percentages: classes with the default table, with a   *)
(* table of their own whose ranges overlap and leave gaps, and with a      *)
(* table holding a range string that does not parse.                       *)

OverlapTable ==
    << <<<<"9", "0", "-", "1", "0", "0">>, 100>>,
       <<<<"8", "0", "-", "9", "5">>, 200>>,
       <<<<"7", "5">>, 300>>,
       <<<<"7", "0", "-", "8", "5">>, 400>> >>

BrokenTable ==
    << <<<<"9", "0", "-", "1", "0", "0">>, 100>>,
       <<<<"8", "0", "-">>, 200>>,
       <<<<"0", "-", "7", "9">>, 500>> >>

ConvertTables ==
    {None, Some(BadText), Some(JsonText(OverlapTable)), Some(JsonText(BrokenTable))}

\* percentages in hundredths: -5, 0, 32 and 64 to 101 in steps of 0.5
ConvertPercentages == {-500, 0, 3200} \cup {50 * k : k \in 128..202}

InitConvert ==
    /\ classes \in {(1 :> [SeedClass EXCEPT !.grade_conversion_table = t]) :
                        t \in ConvertTables}
    /\ tests = (1 :> [class_id |-> 1])
    /\ grades = <<>>
    /\ enrollments = (<<1, 1>> :> [final_grade |-> None])
    /\ last = [op |-> "init"]
    /\ requests = <<>>

Convert_convert_to_ph_grade == ConvertToPhGrade(ConvertPercentages)

NextConvert ==
    \/ Convert_convert_to_ph_grade

SpecConvert == InitConvert /\ [][NextConvert]_vars

---------------------------------------------------------------------------
(* The GPA of a student with grade records in two classes: two tests in    *)
(* class 1 (units from its subject, a major one) and one in class 2 (units *)
(* and term of its own, without subject or with a subject that is not      *)
(* major).                                                                 *)

GpaFinals == {None, Some(150), Some(175), Some(250)}
GpaUnits == {Some(1), Some(3), Some(5)}
GpaSemesters == {"1st", "2nd"}
GpaMethods == {"weighted", "simple", "major_only", "median"}
GpaSubjects == {None, Some(SubjectRow(2, FALSE, None))}
GpaSchoolYears == {"2024-2025", "2023-2024"}

GradedRow(student_id, test_id, final_grade) ==
    [NewGrade(student_id, test_id) EXCEPT !.final_grade = final_grade,
                                          !.calculated_grade = final_grade]

InitGPA ==
    /\ classes \in {(1 :> SeedClass)
                     @@ (2 :> ClassRow(1, u, sub, "2024-2025", sem, None)) :
                        u \in GpaUnits, sem \in GpaSemesters, sub \in GpaSubjects}
    /\ tests = (1 :> [class_id |-> 1]) @@ (2 :> [class_id |-> 2])
                @@ (3 :> [class_id |-> 1])
    /\ grades \in {<<GradedRow(1, 1, a), GradedRow(1, 2, b), GradedRow(1, 3, c)>> :
                       a \in GpaFinals, b \in GpaFinals, c \in {None, Some(250)}}
    /\ enrollments = (<<1, 1>> :> [final_grade |-> None])
                      @@ (<<1, 2>> :> [final_grade |-> None])
    /\ last = [op |-> "init"]
    /\ requests = <<>>

GPA_get_cumulative_gpa == GetCumulativeGpa(GpaMethods)
GPA_get_semester_gpa == GetSemesterGpa(GpaMethods, GpaSchoolYears, GpaSemesters)
GPA_update_grade == UpdateGrade({None, Some(150)})

NextGPA ==
    \/ GPA_get_cumulative_gpa
    \/ GPA_get_semester_gpa
    \/ GPA_update_grade

SpecGPA == InitGPA /\ [][NextGPA]_vars

---------------------------------------------------------------------------
(* The roll-up of the enrollment average on the same data: calls of        *)
(* update_enrollment_average for the two classes and for a class the       *)
(* student is not enrolled in, between grade updates.                      *)

Rollup_update_enrollment_average == UpdateEnrollmentAverage(1..(MaxClasses + 1))

NextRollup ==
    \/ Rollup_update_enrollment_average
    \/ GPA_update_grade

SpecRollup == InitGPA /\ [][NextRollup]_vars

---------------------------------------------------------------------------
(* Requests that interleave: a class with a formula of its own and two     *)
(* tests, the student enrolled; up to MaxRequests requests update_grade    *)
(* and update_components run step by step.                                 *)

RaceLedgers ==
    {Scores(AbsentEntry, OneItem(90, 100), AbsentEntry),
     Scores(OneItem(10, 10), OneItem(90, 100), AbsentEntry)}

RaceTests == {1, 2}

InitRace ==
    /\ classes = (1 :> [SeedClass EXCEPT !.grading_formula = Some(JsonText(F_3070_max))])
    /\ tests = (1 :> [class_id |-> 1]) @@ (2 :> [class_id |-> 1])
    /\ grades = <<>>
    /\ enrollments = (<<1, 1>> :> [final_grade |-> None])
    /\ last = [op |-> "init"]
    /\ requests = <<>>

Race_update_grade == LookUpForGrade({None, Some(200)}, RaceTests \cup {3})
Race_update_components == LookUpForComponents(RaceLedgers, RaceTests \cup {3})

NextRace ==
    \/ Race_update_grade
    \/ Race_update_components
    \/ CommitGrade
    \/ ReadAverage
    \/ WriteAverage

SpecRace == InitRace /\ [][NextRace]_vars

---------------------------------------------------------------------------
(* The two stored shapes of a component: ledgers that hold single numbers  *)
(* beside lists, under formulas without max_points, with max_points and    *)
(* with max_points 0; the calculator, the item reader and                  *)
(* add_component_item on them.                                             *)

F_Half_max == FormulaOf(<<CompMax(Quizzes, 30, 50), CompMax(Exams, 70, 100)>>)
F_Zero_max == FormulaOf(<<CompMax(Quizzes, 30, 0), Comp(Exams, 70)>>)

ShapeFormulas == {F_3070, F_Half_max, F_Zero_max}

ShapeLedgers ==
    {Scores(ScalarEntry(85), AbsentEntry, AbsentEntry),
     Scores(ScalarEntry(40), OneItem(90, 100), ScalarEntry(70)),
     Scores(AbsentEntry, ScalarEntry(50), AbsentEntry)}

InitShape ==
    /\ classes \in {(1 :> [SeedClass EXCEPT !.grading_formula = Some(JsonText(f))]) :
                        f \in ShapeFormulas}
    /\ tests = (1 :> [class_id |-> 1])
    /\ grades = <<NewGrade(1, 1)>>
    /\ enrollments = (<<1, 1>> :> [final_grade |-> None])
    /\ last = [op |-> "init"]
    /\ requests = <<>>

Shape_set_component_scores == SetComponentScores(ShapeLedgers)
Shape_calculate_grade == CalculateGrade
Shape_get_component_items == GetComponentItems(CompKeys)
Shape_add_component_item ==
    AddComponentItem(ItemsAddInputs, {Quizzes, Extra}, {"2024-10-01"})

NextShape ==
    \/ Shape_set_component_scores
    \/ Shape_calculate_grade
    \/ Shape_get_component_items
    \/ Shape_add_component_item

SpecShape == InitShape /\ [][NextShape]_vars

---------------------------------------------------------------------------
(* A ledger built by the item operations alone: from the empty ledger,     *)
(* add_component_item, update_component_item and delete_component_item     *)
(* with arguments that pass and arguments that each check refuses.         *)

\* calls of add_component_item: a valid one and one for each refusal
EntryAddInputs ==
    ItemsAddInputs \cup {AddArgs(Some(-1), Some(25), Some(<<"a">>), None),
                         AddArgs(Some(0), Some(0), Some(<<"a">>), None),
                         AddArgs(Some(20), Some(25), Some(<<" ">>), None)}

EntryUpdateInputs == UpdateInputs \cup {AddArgs(None, Some(30), None, None)}

Entry_add_component_item == AddComponentItem(EntryAddInputs, {Quizzes}, {"2024-10-01"})
Entry_update_component_item == UpdateComponentItem(EntryUpdateInputs, {Quizzes})
Entry_delete_component_item == DeleteComponentItem({Quizzes})

NextEntry ==
    \/ Entry_add_component_item
    \/ Entry_update_component_item
    \/ Entry_delete_component_item

SpecEntry == InitLedger /\ [][NextEntry]_vars

---------------------------------------------------------------------------
(* The calculator on ledgers built by the item operations, under formulas  *)
(* with distinct names and weights within 0..100 that sum to 100, one of   *)
(* them with a weight of 0.                                                *)

WeightsFormulas == {F_3070_max, F_0_100_max}

WeightsAddInputs ==
    {AddArgs(Some(25), Some(25), Some(<<"a">>), Some("2024-09-05")),
     AddArgs(Some(0), Some(25), Some(<<"a">>), Some("2024-09-05")),
     AddArgs(Some(20), Some(10), Some(<<"a">>), None)}

WeightsUpdateInputs == {AddArgs(Some(0), None, None, None)}

InitWeights ==
    /\ classes \in {(1 :> [SeedClass EXCEPT !.grading_formula = Some(JsonText(f))]) :
                        f \in WeightsFormulas}
    /\ tests = (1 :> [class_id |-> 1])
    /\ grades = <<NewGrade(1, 1)>>
    /\ enrollments = (<<1, 1>> :> [final_grade |-> None])
    /\ last = [op |-> "init"]
    /\ requests = <<>>

Weights_add_component_item ==
    AddComponentItem(WeightsAddInputs, {Quizzes, Exams}, {"2024-10-01"})
Weights_update_component_item == UpdateComponentItem(WeightsUpdateInputs, {Quizzes})
Weights_delete_component_item == DeleteComponentItem({Quizzes})
Weights_calculate_grade == CalculateGrade

NextWeights ==
    \/ Weights_add_component_item
    \/ Weights_update_component_item
    \/ Weights_delete_component_item
    \/ Weights_calculate_grade

SpecWeights == InitWeights /\ [][NextWeights]_vars

---------------------------------------------------------------------------
(* Properties *)

\* the formula stored on the class row, when there is one, has component
\* weights that sum to 100
StoredTotals100(cls) ==
    cls.grading_formula # None =>
        /\ Parses(cls.grading_formula)
        /\ IsDict(Loaded(cls.grading_formula))
        /\ Loaded(cls.grading_formula).components # None
        /\ TotalWeight(Val(Loaded(cls.grading_formula).components)) = 100

\* f is a formula with a component list whose weights do not sum to 100
BadTotal(f) ==
    IsDict(f) /\ f.components # None /\ TotalWeight(Val(f.components)) # 100

\* the step is a formula write, recorded in l, with a weight total other than
\* 100, and it reported success
BadTotalAccepted(l) ==
    \/ l.op = "update_formula" /\ BadTotal(l.formula) /\ l.status = 200
    \/ l.op = "set_grading_formula" /\ BadTotal(l.formula) /\ l.raised = ""
    \/ /\ l.op = "create_class" /\ Parses(l.text) /\ BadTotal(Loaded(l.text))
       /\ l.result # "error"

\* the step is a formula write with a weight total other than 100
BadTotalCall(l) ==
    \/ l.op \in {"update_formula", "set_grading_formula"} /\ BadTotal(l.formula)
    \/ l.op = "create_class" /\ Parses(l.text) /\ BadTotal(Loaded(l.text))

\* C1: after any sequence of create_class, update_formula and
\* Class.set_grading_formula calls the formula stored on every class has
\* component weights summing to exactly 100; a call whose weights do not sum
\* to 100 reports an error and leaves every class row as it was (create_class
\* creates no class).
C1_StoredWeightsTotal100 ==
    /\ [](\A id \in DOMAIN classes : StoredTotals100(classes[id]))
    /\ [][BadTotalCall(last') => ~BadTotalAccepted(last') /\ classes' = classes]_vars

\* C1 witness: update_formula on an unlocked class was refused because the
\* weights 30 + 30 do not sum to 100, next to a class whose formula was stored
C1_Witness ==
    /\ last.op = "update_formula" /\ last.status = 400
    /\ last.formula = F_3030_max
    /\ \E id \in DOMAIN classes : classes[id].grading_formula # None

\* some grade record of a test of the class has a non-null final_grade
Graded(class_id) ==
    \E i \in DOMAIN grades :
        /\ grades[i].final_grade # None
        /\ tests[grades[i].test_id].class_id = class_id

\* C2: update_formula on a class with a grade record whose final_grade is
\* non-null reports the edit lock (403), and no step taken while such a record
\* exists changes the stored formula of the class.
C2_LockedFormulaUnchanged ==
    [][\A id \in DOMAIN classes :
          Graded(id) =>
              /\ classes'[id].grading_formula = classes[id].grading_formula
              /\ (last'.op = "update_formula" /\ last'.class_id = id
                      => last'.status = 403)]_vars

\* C2 witness: a valid formula was refused with 403 on a graded class
C2_Witness ==
    /\ last.op = "update_formula" /\ last.status = 403
    /\ ~BadTotal(last.formula)
    /\ Graded(last.class_id)

\* the step ran calculate_grade on a row, directly or in update_components,
\* and the row at position i has a non-null final_grade after it
CalculatedFinal(i) ==
    /\ i \in DOMAIN grades' /\ grades'[i].final_grade # None
    /\ \/ last'.op = "calculate_grade" /\ last'.row = i
       \/ /\ last'.op = "update_components" /\ last'.status = 200
          /\ grades'[i].test_id = last'.test_id

\* C3: can_edit_formula(class) is false exactly when some grade record of a
\* test of the class has a non-null final_grade; it is false in the state
\* right after a calculate_grade call that yields a non-null final_grade for
\* a record of the class.
C3_CanEditIffNoFinalGrade ==
    /\ [](\A id \in DOMAIN classes : can_edit_formula(id) <=> ~Graded(id))
    /\ [][\A id \in DOMAIN classes, i \in DOMAIN grades' :
             CalculatedFinal(i) /\ tests'[grades'[i].test_id].class_id = id
                 => ~(can_edit_formula(id))']_vars

\* C3 witness: calculate_grade has just set a final grade in class 1, which
\* is no longer editable, while class 2 without graded record still is
C3_Witness ==
    /\ last.op = "calculate_grade"
    /\ grades[last.row].final_grade # None
    /\ ClassIdOf(grades[last.row]) = 1
    /\ ~can_edit_formula(1)
    /\ 2 \in DOMAIN classes /\ can_edit_formula(2)

\* the text is empty or holds only whitespace
Blank(text) == \A k \in DOMAIN text : text[k] = " "

\* the arguments are among those add_component_item has to refuse: score
\* missing or negative, score above max_score, max_score not positive, or a
\* name that is missing, empty or blank
InvalidAdd(a) ==
    \/ a.score = None
    \/ a.score # None /\ Val(a.score) < 0
    \/ a.score # None /\ a.max_score # None /\ Val(a.score) > Val(a.max_score)
    \/ a.max_score # None /\ Val(a.max_score) <= 0
    \/ a.item_name = None
    \/ a.item_name # None /\ Blank(Val(a.item_name))

\* C4: add_component_item fails with a validation error whenever the score is
\* missing or negative, score > max_score, max_score <= 0 or the name is empty
\* or only whitespace, and the stored component_scores of the record is then
\* exactly what it was before the call.
C4_InvalidAddRejected ==
    [][last'.op = "add_component_item" /\ InvalidAdd(last'.args) =>
          /\ last'.raised # ""
          /\ grades'[last'.row].component_scores
                 = grades[last'.row].component_scores]_vars

\* C4 witness: an item with score above max was refused on a component that
\* already holds items
C4_Witness ==
    /\ last.op = "add_component_item" /\ last.raised # ""
    /\ last.args.score = Some(20) /\ last.args.max_score = Some(10)
    /\ Len(get_component_items(grades[last.row], last.component)) > 0

\* the step is a successful add_component_item
AddedStep == last'.op = "add_component_item" /\ last'.raised = ""

\* the step is a successful delete_component_item
DeletedStep == last'.op = "delete_component_item" /\ last'.ok

\* the items get_component_items returns for the component of the step's
\* call, before and after the step
ItemsBefore == get_component_items(grades[last'.row], last'.component)
ItemsAfter == get_component_items(grades'[last'.row], last'.component)

\* after the step the list is the previous list with one item appended that
\* carries the given fields
AppendedWith(score, max, name, date) ==
    /\ Len(ItemsAfter) = Len(ItemsBefore) + 1
    /\ \A k \in DOMAIN ItemsBefore : ItemsAfter[k] = ItemsBefore[k]
    /\ LET it == ItemsAfter[Len(ItemsAfter)]
       IN  /\ it.is_dict
           /\ it.score = Num(score) /\ it.max = Num(max)
           /\ it.name = name /\ it.date = date

\* the text without its leading and trailing spaces
Trimmed(text) ==
    LET inner == {k \in DOMAIN text : text[k] # " "}
    IN  IF inner = {} THEN <<>>
        ELSE LET lo == CHOOSE k \in inner : \A j \in inner : k <= j
                 hi == CHOOSE k \in inner : \A j \in inner : j <= k
             IN  SubSeq(text, lo, hi)

\* after a delete at the 0-based position of the step's call the list lacks
\* that item, the later items have moved down by one and the entries of the
\* other components are those of before
RemovedAndShifted ==
    LET pos == last'.item_index + 1
    IN  /\ Len(ItemsAfter) = Len(ItemsBefore) - 1
        /\ \A k \in DOMAIN ItemsBefore :
               /\ k < pos => ItemsAfter[k] = ItemsBefore[k]
               /\ k > pos => ItemsAfter[k - 1] = ItemsBefore[k]
        /\ \A c \in CompKeys \ {last'.component} :
               Entry(get_component_scores(grades'[last'.row]), c)
                   = Entry(get_component_scores(grades[last'.row]), c)

\* C5 as stated: add_component_item followed by get_component_items returns
\* the previous list with the new item appended, carrying exactly the score,
\* max, name and date passed; delete_component_item(c, i) followed by
\* get_component_items removes position i, shifts the later items down by one
\* and leaves the other components untouched.
C5_Original_ExactFields ==
    [][/\ AddedStep =>
             \E date \in {last'.now} \cup Range(last'.args.item_date) :
                 /\ last'.args.item_date # None => date = Val(last'.args.item_date)
                 /\ AppendedWith(Val(last'.args.score), Val(last'.args.max_score),
                                 Val(last'.args.item_name), date)
       /\ DeletedStep => RemovedAndShifted]_vars

\* C5 amended: the appended item carries the score and max passed, the name
\* with its leading and trailing whitespace removed, and the date passed, or
\* the current date when the date is omitted or empty; the delete part as
\* stated.
C5_AppendStrippedAndDeleteShifts ==
    [][/\ AddedStep =>
             AppendedWith(Val(last'.args.score), Val(last'.args.max_score),
                          Trimmed(Val(last'.args.item_name)),
                          IF last'.args.item_date \in {None, Some("")}
                          THEN last'.now ELSE Val(last'.args.item_date))
       /\ DeletedStep => RemovedAndShifted]_vars

\* C5 witness: the first of two items was deleted and the second is now at
\* the first position, next to another component that holds items
C5_Witness ==
    /\ last.op = "delete_component_item" /\ last.ok /\ last.item_index = 0
    /\ Len(get_component_items(grades[last.row], last.component)) = 1
    /\ \E c \in CompKeys \ {last.component} :
           get_component_items(grades[last.row], c) # <<>>

\* C5 second witness: an item passed with a padded name and no date is stored
C5_WitnessAdd ==
    /\ last.op = "add_component_item" /\ last.raised = ""
    /\ last.args.item_name = Some(<<" ", "a", " ">>)
    /\ Len(get_component_items(grades[last.row], last.component)) = 2

\* the positions of the items whose max is above 0
Counted(items) ==
    {k \in DOMAIN items : items[k].max.k = "num" /\ items[k].max.v > 0}

\* the product of the max of the items at the positions ks
RECURSIVE ProdMax(_, _)
ProdMax(items, ks) ==
    IF ks = {} THEN 1
    ELSE LET k == CHOOSE j \in ks : TRUE
         IN  items[k].max.v * ProdMax(items, ks \ {k})

\* the sum of score / max over the positions ks, times p (a multiple of
\* every max); an item without score counts 0
RECURSIVE SumOfRatios(_, _, _)
SumOfRatios(items, ks, p) ==
    IF ks = {} THEN 0
    ELSE LET k == CHOOSE j \in ks : TRUE
             score == IF items[k].score.k = "num" THEN items[k].score.v ELSE 0
         IN  score * (p \div items[k].max.v) + SumOfRatios(items, ks \ {k}, p)

\* avg, in hundredths, is a hundredth nearest to the mean of score / max * 100
\* over the items with max above 0
NearestToMean(avg, items) ==
    LET ks == Counted(items)
        n == Cardinality(ks)
        p == ProdMax(items, ks)
        t == SumOfRatios(items, ks, p)
        diff == 2 * (avg * n * p - 10000 * t)
    IN  -(n * p) <= diff /\ diff <= n * p

C6_WitnessScalar ==
    /\ last.op = "get_component_summary" /\ last.raised = "" /\ last.value = None
    /\ Entry(get_component_scores(grades[last.row]), last.component).kind = "scalar"

\* the sum, over the formula components from position i on that have data,
\* of componentPercentage * weight / 100, as an exact rational
RECURSIVE WeightedSumFrom(_, _, _)
WeightedSumFrom(components, scores, i) ==
    IF i > Len(components) THEN Rat(0, 1)
    ELSE LET pct == ComponentPercentage(components[i],
                                        Entry(scores, Val(components[i].name)))
             rest == WeightedSumFrom(components, scores, i + 1)
         IN  IF pct = None THEN rest
             ELSE RAdd(RDivInt(RMulInt(Val(pct), Val(components[i].weight)), 100),
                       rest)

\* the positions of the formula components that have data
DataPositions(components, scores) ==
    {i \in DOMAIN components :
        ComponentPercentage(components[i],
                            Entry(scores, Val(components[i].name))) # None}

\* the weight total of the formula components that have data
RECURSIVE WeightOver(_, _)
WeightOver(components, ks) ==
    IF ks = {} THEN 0
    ELSE LET k == CHOOSE j \in ks : TRUE
         IN  Val(components[k].weight) + WeightOver(components, ks \ {k})

\* h, in hundredths, is a hundredth nearest to the rational x
NearestHundredth(h, x) ==
    LET diff == 2 * (h * x[2] - 100 * x[1])
    IN  -x[2] <= diff /\ diff <= x[2]

\* the components of the formula of the class of the row at position i
FormulaComponents(i) ==
    Val(get_grading_formula(classes[ClassIdOf(grades[i])]).components)

\* the step is a calculate_grade call that returned, on a row where some
\* formula component has data
CalculatedWithData ==
    /\ last'.op = "calculate_grade" /\ last'.raised = ""
    /\ DataPositions(FormulaComponents(last'.row),
                     get_component_scores(grades[last'.row])) # {}

\* after the step calculated_percentage of the row is the weighted sum over
\* the components with data, rounded to 2 decimals
PercentageIsWeightedSum ==
    LET row == grades'[last'.row]
    IN  /\ row.calculated_percentage # None
        /\ NearestHundredth(Val(row.calculated_percentage),
               WeightedSumFrom(FormulaComponents(last'.row),
                               get_component_scores(grades[last'.row]), 1))

\* the step ran on the formula Quizzes 30 / Exams 70 with Quizzes absent and
\* Exams at 90 of 100
ExampleStep ==
    /\ last'.op = "calculate_grade"
    /\ get_grading_formula(classes[1]) = F_3070_max
    /\ get_component_scores(grades[last'.row])
           = Scores(AbsentEntry, OneItem(90, 100), AbsentEntry)

\* C7 as stated: calculate_grade skips the components without data and does
\* not renormalise: calculated_percentage is the sum over the components that
\* have data of componentPercentage * weight / 100, rounded to 2 decimals
\* (Quizzes 30 / Exams 70 with only Exams at 90% gives 63.0).
C7_Original_WeightedSumOfPresent ==
    [][/\ CalculatedWithData => PercentageIsWeightedSum
       /\ ExampleStep => grades'[last'.row].calculated_percentage = Some(6300)]_vars

\* C7 amended: when calculate_grade returns and the weights of the components
\* that have data sum to more than 0, calculated_percentage is that sum,
\* rounded to 2 decimals, never divided by the weight total.
C7_WeightedSumWhenWeightPositive ==
    [][/\ /\ CalculatedWithData
          /\ WeightOver(FormulaComponents(last'.row),
                 DataPositions(FormulaComponents(last'.row),
                               get_component_scores(grades[last'.row]))) > 0
          => PercentageIsWeightedSum
       /\ ExampleStep => grades'[last'.row].calculated_percentage = Some(6300)]_vars

\* C7 witness: the example, with 63.0 stored and converted
C7_Witness ==
    /\ last.op = "calculate_grade" /\ last.raised = ""
    /\ get_grading_formula(classes[1]) = F_3070_max
    /\ get_component_scores(grades[last.row])
           = Scores(AbsentEntry, OneItem(90, 100), AbsentEntry)
    /\ grades[last.row].calculated_percentage = Some(6300)

\* C8: whenever calculate_grade runs on a record whose is_overridden is true,
\* final_grade equals override_grade after the call, for every override
\* grade, every earlier final_grade and every ledger content.
C8_OverrideWinsAfterCalculate ==
    [][last'.op = "calculate_grade" /\ grades[last'.row].is_overridden =>
          grades'[last'.row].final_grade = grades'[last'.row].override_grade]_vars

\* the positions of the entries of the table whose range, read as whole
\* percents, contains the percentage (in hundredths), bounds included
Containing(entries, percentage) ==
    {i \in DOMAIN entries :
        /\ ~entries[i].range.raises
        /\ 100 * entries[i].range.lo <= percentage
        /\ percentage <= 100 * entries[i].range.hi}

\* C9: convert_to_ph_grade returns the grade of the first range of the table,
\* in table order, that contains the percentage (inclusive bounds, or the
\* exact single point) and 5.0 when no range does; with the default table
\* convert(75) = 3.0, convert(100) = 1.0 and convert(-5) = 5.0.
C9_FirstMatchingRangeElseWorst ==
    last.op = "convert_to_ph_grade" /\ last.grade # None =>
        LET table == get_grade_conversion_table(classes[last.class_id])
            hits == Containing(ParseTable(table), last.percentage)
        IN  /\ hits = {} => last.grade = Some(500)
            /\ hits # {} =>
                   \E i \in hits : /\ \A j \in hits : i <= j
                                   /\ last.grade = Some(table[i][2])
            /\ table = DefaultConversionTable =>
                   /\ last.percentage = 7500 => last.grade = Some(300)
                   /\ last.percentage = 10000 => last.grade = Some(100)
                   /\ last.percentage = -500 => last.grade = Some(500)

\* C9 witness: 92 is in the ranges 90-100 and 80-95 of a class's own table
\* and converts to the grade of the first
C9_Witness ==
    /\ last.op = "convert_to_ph_grade" /\ last.percentage = 9200
    /\ get_grade_conversion_table(classes[last.class_id]) = OverlapTable
    /\ last.grade = Some(100)

\* C9 second witness: 100 converts to 1.0 with the default table
C9_WitnessDefault ==
    /\ last.op = "convert_to_ph_grade" /\ last.percentage = 10000
    /\ get_grade_conversion_table(classes[last.class_id]) = DefaultConversionTable
    /\ last.grade = Some(100)

\* the positions of the grade records a GPA call of last's arguments gathers:
\* the student's records with a final grade, for the semester variant those
\* of a class of the school year and semester
Gathered ==
    {i \in DOMAIN grades :
        /\ grades[i].student_id = last.student_id
        /\ grades[i].final_grade # None
        /\ last.op = "get_semester_gpa" =>
               /\ classes[tests[grades[i].test_id].class_id].school_year
                      = last.school_year
               /\ classes[tests[grades[i].test_id].class_id].semester
                      = last.semester}

\* the sum over the positions ks of the class units, times the final grade
\* when with_grade
RECURSIVE UnitSum(_, _)
UnitSum(ks, with_grade) ==
    IF ks = {} THEN 0
    ELSE LET k == CHOOSE j \in ks : TRUE
             units == effective_units(classes[tests[grades[k].test_id].class_id])
         IN  (IF with_grade THEN Val(grades[k].final_grade) * units ELSE units)
             + UnitSum(ks \ {k}, with_grade)

\* C10: with method 'weighted', get_cumulative_gpa and get_semester_gpa
\* return the sum of final_grade * class units over the sum of class units,
\* taken over the gathered records with a final grade and rounded to 2
\* decimals, and null when that unit sum is 0 (1.5 and 2.5 at 3 units each
\* give 2.0).
C10_WeightedGpa ==
    /\ last.op \in {"get_cumulative_gpa", "get_semester_gpa"}
    /\ last.calculation_method = "weighted"
    => LET units == UnitSum(Gathered, FALSE)
           points == UnitSum(Gathered, TRUE)
       IN  /\ units = 0 => last.value = None
           /\ units # 0 =>
                  /\ last.value # None
                  /\ 2 * (Val(last.value) * units - points) <= units
                  /\ 2 * (points - Val(last.value) * units) <= units

\* C10 witness: final grades 1.5 in a class of 3 units and 2.5 in a class of
\* 1 unit give the weighted 1.75, not the plain mean 2.0
C10_Witness ==
    /\ last.op = "get_cumulative_gpa" /\ last.calculation_method = "weighted"
    /\ Gathered = {1, 2}
    /\ grades[1].final_grade = Some(150) /\ grades[2].final_grade = Some(250)
    /\ effective_units(classes[1]) = 3 /\ effective_units(classes[2]) = 1
    /\ last.value = Some(175)

\* C10 second witness: the example, 1.5 and 2.5 at 3 units each give 2.0
C10_WitnessExample ==
    /\ last.op = "get_semester_gpa" /\ last.calculation_method = "weighted"
    /\ Gathered = {1, 2}
    /\ grades[1].final_grade = Some(150) /\ grades[2].final_grade = Some(250)
    /\ effective_units(classes[1]) = 3 /\ effective_units(classes[2]) = 3
    /\ last.value = Some(200)

\* the sum of the final grades of the records at the positions ks
RECURSIVE FinalSum(_)
FinalSum(ks) ==
    IF ks = {} THEN 0
    ELSE LET k == CHOOSE j \in ks : TRUE
         IN  Val(grades[k].final_grade) + FinalSum(ks \ {k})

\* the gathered records a 'simple' or 'major_only' call averages: all of
\* them, or those whose class is flagged major
Averaged ==
    IF last.calculation_method = "simple" THEN Gathered
    ELSE {i \in Gathered : is_major_subject(classes[tests[grades[i].test_id].class_id])}

\* C11: with methods 'simple' and 'major_only', get_semester_gpa and
\* get_cumulative_gpa return the mean, rounded to 2 decimals, of final_grade
\* over all gathered records, respectively over those whose class is flagged
\* major; the result is null exactly when that set of records is empty;
\* records without final_grade, and for the semester variant records of a
\* class of another school year or semester, do not contribute.
C11_SimpleAndMajorOnlyGpa ==
    /\ last.op \in {"get_cumulative_gpa", "get_semester_gpa"}
    /\ last.calculation_method \in {"simple", "major_only"}
    => LET n == Cardinality(Averaged)
           total == FinalSum(Averaged)
       IN  /\ last.value = None <=> Averaged = {}
           /\ Averaged # {} =>
                  /\ 2 * (Val(last.value) * n - total) <= n
                  /\ 2 * (total - Val(last.value) * n) <= n

\* C11 witness: 'major_only' over 1.5 and 2.5 in the major class and 1.75 in
\* a class of the same semester that is not major gives 2.0
C11_Witness ==
    /\ last.op = "get_semester_gpa" /\ last.calculation_method = "major_only"
    /\ Gathered = {1, 2, 3} /\ Averaged = {1, 3}
    /\ grades[1].final_grade = Some(150) /\ grades[2].final_grade = Some(175)
    /\ grades[3].final_grade = Some(250)
    /\ last.value = Some(200)

\* C11 second witness: 'simple' over a semester in which only the record of
\* class 2 lies, beside records of another semester and one without grade
C11_WitnessSimple ==
    /\ last.op = "get_semester_gpa" /\ last.calculation_method = "simple"
    /\ last.semester = "2nd" /\ Gathered = {2}
    /\ grades[1].final_grade # None /\ grades[3].final_grade = None
    /\ last.value = grades[2].final_grade

\* the positions of the records of the student in the class that have a
\* final grade
FinalsOf(student_id, class_id) ==
    {i \in DOMAIN grades :
        /\ grades[i].student_id = student_id
        /\ grades[i].test_id \in DOMAIN tests
        /\ tests[grades[i].test_id].class_id = class_id
        /\ grades[i].final_grade # None}

\* cached is null when the student has no record with a final grade in the
\* class, and else a hundredth nearest to the mean of those final grades
IsClassAverage(cached, student_id, class_id) ==
    LET ks == FinalsOf(student_id, class_id)
        n == Cardinality(ks)
    IN  /\ cached = None <=> ks = {}
        /\ ks # {} => /\ 2 * (Val(cached) * n - FinalSum(ks)) <= n
                      /\ 2 * (FinalSum(ks) - Val(cached) * n) <= n

\* C12: update_enrollment_average(student, class) sets the cached
\* final_grade of the enrollment to the unweighted mean, rounded to 2
\* decimals, of the non-null final grades of the student's records in the
\* class, and to null when there is none; it changes no grade record and no
\* other enrollment.
C12_EnrollmentAverageIsMean ==
    [][last'.op = "update_enrollment_average" =>
          LET pair == <<last'.student_id, last'.class_id>>
          IN  /\ grades' = grades
              /\ DOMAIN enrollments' = DOMAIN enrollments
              /\ \A p \in DOMAIN enrollments \ {pair} :
                     enrollments'[p] = enrollments[p]
              /\ pair \in DOMAIN enrollments =>
                     IsClassAverage(enrollments'[pair].final_grade,
                                    pair[1], pair[2])]_vars

\* C12 witness: the average of class 1 was set to 2.0 from 1.5 and 2.5 while
\* the record of class 2 holds 1.75 and its enrollment keeps its null cache
C12_Witness ==
    /\ last.op = "update_enrollment_average" /\ last.class_id = 1
    /\ grades[1].final_grade = Some(150) /\ grades[3].final_grade = Some(250)
    /\ grades[2].final_grade = Some(175)
    /\ enrollments[<<1, 1>>].final_grade = Some(200)
    /\ enrollments[<<1, 2>>].final_grade = None

\* C12 second witness: the call for a class whose records have no final
\* grade left a null cache
C12_WitnessNull ==
    /\ last.op = "update_enrollment_average"
    /\ FinalsOf(1, last.class_id) = {}
    /\ enrollments[<<1, last.class_id>>].final_grade = None
    /\ \E i \in DOMAIN grades :
           tests[grades[i].test_id].class_id = last.class_id

\* C13: in every state reached through the ledger operations,
\* calculate_grade, set_override, remove_override and the requests
\* update_components and update_grade, final_grade of a grade record equals
\* override_grade when is_overridden is true and calculated_grade otherwise.
C13_FinalGradeFollowsOverride ==
    \A i \in DOMAIN grades :
        grades[i].final_grade = IF grades[i].is_overridden
                                THEN grades[i].override_grade
                                ELSE grades[i].calculated_grade

\* the step is a calculate_grade call that returned, on a row none of whose
\* formula components has data
CalculatedWithoutData ==
    /\ last'.op = "calculate_grade" /\ last'.raised = ""
    /\ DataPositions(FormulaComponents(last'.row),
                     get_component_scores(grades[last'.row])) = {}

\* C14: every call of calculate_grade recomputes the derived fields from the
\* current ledger: when no formula component yields data (absent, empty
\* list, no valid item, or component_scores empty or unset),
\* calculated_percentage and calculated_grade are null after the call and
\* final_grade is null unless the record is overridden, whatever these fields
\* held before.
C14_NoDataClearsDerivedFields ==
    [][CalculatedWithoutData =>
          LET row == grades'[last'.row]
          IN  /\ row.calculated_percentage = None
              /\ row.calculated_grade = None
              /\ ~row.is_overridden => row.final_grade = None]_vars

\* the step is an update_component_item call
UpdateStep == last'.op = "update_component_item"

\* the call of the step names a list and a position inside it
TargetFound ==
    LET e == Entry(get_component_scores(grades[last'.row]), last'.component)
    IN  e.kind = "list" /\ 0 <= last'.item_index /\ last'.item_index < Len(e.items)

\* the item the call of the step names, before the step
TargetItem == ItemsBefore[last'.item_index + 1]

\* the arguments a fail validation on the item: a negative score, a max that
\* is not positive, a resulting score above the resulting max, or a blank
\* name
InvalidUpdate(a, item) ==
    \/ a.score # None /\ Val(a.score) < 0
    \/ a.max_score # None /\ Val(a.max_score) <= 0
    \/ LET score == IF a.score # None THEN Num(Val(a.score)) ELSE item.score
           max == IF a.max_score # None THEN Num(Val(a.max_score)) ELSE item.max
       IN  score.k = "num" /\ max.k = "num" /\ score.v > max.v
    \/ a.item_name # None /\ Blank(Val(a.item_name))

\* C15: an update_component_item call that fails validation (negative score,
\* max <= 0, resulting score above resulting max, blank name), at whichever
\* field and whichever other fields were supplied, leaves the stored
\* component_scores exactly as before the call; such arguments do fail on an
\* item that exists.
C15_FailedUpdateLeavesLedger ==
    [][UpdateStep =>
          /\ last'.raised # "" =>
                 grades'[last'.row].component_scores
                     = grades[last'.row].component_scores
          /\ TargetFound /\ TargetItem.is_dict
                 /\ InvalidUpdate(last'.args, TargetItem)
                 => last'.raised # ""]_vars

\* C15 witness: a call with a new score, a new max and a blank name failed at
\* the name on the second of two items, which still holds its score 20
C15_Witness ==
    /\ last.op = "update_component_item"
    /\ last.raised = "Item name cannot be empty"
    /\ last.args.score = Some(5) /\ last.args.max_score = Some(30)
    /\ last.item_index = 1
    /\ Len(get_component_items(grades[last.row], last.component)) = 2
    /\ get_component_items(grades[last.row], last.component)[2].score = Num(20)

\* C15 second witness: a new score alone failed against the stored max
C15_WitnessExceeds ==
    /\ last.op = "update_component_item"
    /\ last.raised = "Score cannot exceed max score"
    /\ last.args.score = Some(40) /\ last.args.max_score = None
    /\ get_component_items(grades[last.row], last.component)[last.item_index + 1].score
           = Num(20)

\* the step is a delete_component_item call
DeleteStep == last'.op = "delete_component_item"

\* the stored component_scores of the row of the step's call is unchanged
LedgerUnchanged ==
    grades'[last'.row].component_scores = grades[last'.row].component_scores

\* after the step the list differs from the list before at most at the
\* position of the step's call, and the other components are those of before
OnlyTargetChanged ==
    /\ Len(ItemsAfter) = Len(ItemsBefore)
    /\ \A k \in DOMAIN ItemsBefore :
           k # last'.item_index + 1 => ItemsAfter[k] = ItemsBefore[k]
    /\ \A c \in CompKeys \ {last'.component} :
           Entry(get_component_scores(grades'[last'.row]), c)
               = Entry(get_component_scores(grades[last'.row]), c)

\* C16: update_component_item and delete_component_item return False and
\* leave the stored component_scores unchanged when the component is absent,
\* is a legacy scalar, or the index is outside 0..len-1 (negative indices
\* included); for every index inside that range, with valid arguments, they
\* succeed and affect only the item at that position.
C16_NotFoundOrOnlyTarget ==
    [][/\ (UpdateStep \/ DeleteStep) /\ ~TargetFound =>
             ~last'.ok /\ LedgerUnchanged
       /\ DeleteStep /\ TargetFound => last'.ok /\ RemovedAndShifted
       /\ UpdateStep /\ TargetFound /\ ~InvalidUpdate(last'.args, TargetItem) =>
             last'.ok /\ OnlyTargetChanged]_vars

\* the class has no formula of its own that parses, and no subject with a
\* formula that parses
NothingStored(cls) ==
    /\ ~Parses(cls.grading_formula)
    /\ cls.subject = None \/ ~Parses(Val(cls.subject).grading_formula)

\* the formula has two components of weight 50 each, Midterm Exam and Final
\* Exam, and passing_grade 3.0
IsDefaultFormula(f) ==
    /\ IsDict(f) /\ f.components # None /\ Len(Val(f.components)) = 2
    /\ Val(f.components)[1].name = Some(<<"M">>)
    /\ Val(f.components)[2].name = Some(<<"F">>)
    /\ \A k \in 1..2 : Val(f.components)[k].weight = Some(50)
    /\ f.passing_grade = Some(300)

C17_WitnessDefault ==
    /\ last.op = "get_grading_formula"
    /\ classes[last.class_id].grading_formula = Some(BadText)
    /\ classes[last.class_id].subject # None
    /\ Val(classes[last.class_id].subject).grading_formula = Some(BadText)
    /\ last.value = DefaultFormula

\* the operations on a grade record that delete none
RecordOps ==
    {"add_component_item", "update_component_item", "delete_component_item",
     "calculate_grade", "set_override", "remove_override"}

\* C18: once some grade record of a class has a non-null final_grade the
\* formula of the class stays locked: after every later add, update or
\* delete of a score item, calculate_grade, set_override and remove_override
\* (no grade record being deleted) can_edit_formula is still false for the
\* class and its stored formula is unchanged.
C18_LockStaysAfterFinalGrade ==
    [][last'.op \in RecordOps /\ Len(grades') = Len(grades) =>
          \A id \in DOMAIN classes :
              Graded(id) =>
                  /\ ~(can_edit_formula(id))'
                  /\ classes'[id].grading_formula = classes[id].grading_formula]_vars

\* the last step was one of the teacher requests update_components,
\* update_grade and delete_test, and it completed
TeacherRequestDone ==
    \/ last.op \in {"update_components", "update_grade"} /\ last.status = 200
    \/ last.op = "delete_test" /\ last.result = "deleted"

\* C19: after each of the requests update_components, update_grade and
\* delete_test has completed, the cached final_grade of every enrollment
\* equals the mean, rounded to 2 decimals, of the non-null final grades of
\* the student's existing grade records in the class, and is null when there
\* is none.
C19_CachedAverageAfterRequests ==
    TeacherRequestDone =>
        \A p \in DOMAIN enrollments :
            IsClassAverage(enrollments[p].final_grade, p[1], p[2])

\* the rows the calculator yields for the record pre with the submitted
\* components stored and no derived field carried over
Recomputed(pre, components, cls) ==
    {calculate_grade([pre EXCEPT !.component_scores = json_dumps(components),
                                 !.calculated_percentage = None,
                                 !.calculated_grade = None,
                                 !.final_grade = IF pre.is_overridden
                                                 THEN pre.override_grade ELSE None],
                     cls, tie).grade : tie \in TieModes}

\* C20: after every execution of update_components the committed grade
\* record is either the record of before the request (when the request
\* failed) or holds the submitted components together with the
\* calculated_percentage, calculated_grade and final_grade the calculator
\* yields for them; no committed record holds new component_scores beside
\* derived fields computed from older scores.
C20_ComponentsAndDerivedCommittedTogether ==
    [][last'.op = "update_components" =>
          IF last'.status # 200 THEN grades' = grades
          ELSE \E i \in DOMAIN grades' :
                   /\ grades'[i].test_id = last'.test_id
                   /\ grades'[i] \in Recomputed(GetOrCreate(grades'[i].student_id,
                                                            last'.test_id),
                                                last'.components,
                                                classes[tests[last'.test_id].class_id])
                   /\ \A j \in DOMAIN grades : j # i => grades'[j] = grades[j]]_vars

\* C21: after any sequence and any interleaving of update_grade and
\* update_components requests there is at most one grade record for each
\* pair of a student and a test.
C21_AtMostOneRecordPerPair ==
    \A i, j \in DOMAIN grades :
        grades[i].student_id = grades[j].student_id
        /\ grades[i].test_id = grades[j].test_id => i = j

\* some request was started, every request started was an update_components
\* request and all of them have answered
AllComponentsRequestsFinished ==
    /\ DOMAIN requests # {}
    /\ \A r \in DOMAIN requests :
           requests[r].op = "update_components" /\ requests[r].pc = "done"

\* C22: when update_components requests on grade records of the same
\* student and class interleave (grade commit, roll-up read, roll-up write),
\* then once all of them have finished the cached final_grade of the
\* enrollment equals the mean of the committed non-null final grades of the
\* pair, and one more run of update_enrollment_average changes nothing.
C22_RollupConvergesAfterInterleaving ==
    AllComponentsRequestsFinished =>
        \A p \in DOMAIN enrollments :
            /\ IsClassAverage(enrollments[p].final_grade, p[1], p[2])
            /\ \A tie \in AverageTies(grades, tests, p[1], p[2]) :
                   update_enrollment_average(enrollments, grades, tests,
                                             p[1], p[2], tie) = enrollments

\* the summary and the calculator agree on the item list of component c of
\* the record g: the summary returns, both count the same items, the
\* calculator skips the component exactly when the summary is null, and the
\* average of the summary is the calculator's percentage rounded
SummaryAgreesWithCalculator(g, c) ==
    LET e == Entry(get_component_scores(g), c)
        used == ComponentPercentage(Comp(c, 100), e)
    IN  e.kind = "list" =>
            \A tie \in TieModes :
                LET summary == get_component_summary(g, c, tie)
                IN  /\ summary.raised = ""
                    /\ CalcValid(e.items) = SummaryValid(e.items)
                    /\ used = None <=> summary.value = None
                    /\ used # None /\ summary.value # None =>
                           Val(summary.value).average_percentage
                               = Round2(Val(used), tie)

\* C23: for every item list that can be stored in component_scores, lists
\* submitted whole included (items without score or max, or with max <= 0),
\* the component percentage calculate_grade uses equals the average of
\* get_component_summary before its rounding, over the same valid items, and
\* calculate_grade skips the component exactly when the summary is null.
C23_CalculatorUsesSummaryAverage ==
    \A i \in DOMAIN grades, c \in CompKeys : SummaryAgreesWithCalculator(grades[i], c)

\* the components of f whose weight is given and lies outside [0, 100] or
\* whose name is missing or empty
OutOfRange(f) ==
    IF IsDict(f) /\ f.components # None
    THEN {i \in DOMAIN Val(f.components) :
             LET c == Val(f.components)[i]
             IN  \/ c.weight # None /\ (Val(c.weight) < 0 \/ Val(c.weight) > 100)
                 \/ c.name = None
                 \/ c.name = Some(<<>>)}
    ELSE {}

\* the formula submitted by the formula write recorded in l
Submitted(l) ==
    IF l.op = "create_class"
    THEN IF Parses(l.text) THEN Loaded(l.text) ELSE NotADict
    ELSE IF l.op \in {"update_formula", "set_grading_formula"} THEN l.formula
    ELSE NotADict

\* the formula write recorded in l reported success
Accepted(l) ==
    \/ l.op = "update_formula" /\ l.status = 200
    \/ l.op = "set_grading_formula" /\ l.raised = ""
    \/ l.op = "create_class" /\ l.result # "error"

\* C24: every formula stored on a class through create_class, update_formula
\* or Class.set_grading_formula has each component weight within [0, 100]
\* and each component name non-empty; a formula violating either condition
\* is rejected with an error and not stored.
C24_StoredWeightsAndNamesInRange ==
    /\ [](\A id \in DOMAIN classes :
              Parses(classes[id].grading_formula) =>
                  OutOfRange(Loaded(classes[id].grading_formula)) = {})
    /\ [][OutOfRange(Submitted(last')) # {} =>
              ~Accepted(last') /\ classes' = classes]_vars

\* f has at least one component, each with only a non-blank name and a
\* weight within [0, 100], no max_points, and the weights sum to 100
PlainFormula(f) ==
    /\ IsDict(f) /\ f.components # None
    /\ Len(Val(f.components)) >= 1
    /\ \A i \in DOMAIN Val(f.components) :
           LET c == Val(f.components)[i]
           IN  /\ c.name # None /\ Strip(Val(c.name)) # <<>>
               /\ c.weight # None /\ Val(c.weight) \in 0..100
               /\ c.max_points = None
    /\ TotalWeight(Val(f.components)) = 100

\* the formula write recorded in l got as far as the checks of the formula
ReachedFormulaChecks(l) ==
    \/ l.op \in {"create_class", "set_grading_formula"}
    \/ l.op = "update_formula" /\ l.status \notin {403, 404}

\* C25: max_points is optional: a formula with at least one component, each
\* carrying only a non-empty name and a weight, the weights summing to 100,
\* is accepted and stored by create_class and by set_grading_formula and
\* update_formula alike.
C25_PlainFormulaAcceptedByEveryWriter ==
    [][PlainFormula(Submitted(last')) /\ ReachedFormulaChecks(last') =>
          /\ Accepted(last')
          /\ Parses(classes'[last'.class_id].grading_formula)
          /\ Loaded(classes'[last'.class_id].grading_formula).components
                 = Submitted(last').components]_vars

\* the step leaves the ledger and the calculated fields of row i, and every
\* other row, as they were
UnderlyingDataKept(i) ==
    /\ Len(grades') = Len(grades)
    /\ \A j \in DOMAIN grades : j # i => grades'[j] = grades[j]
    /\ grades'[i].component_scores = grades[i].component_scores
    /\ grades'[i].calculated_percentage = grades[i].calculated_percentage
    /\ grades'[i].calculated_grade = grades[i].calculated_grade

\* C26: set_override and remove_override leave component_scores,
\* calculated_percentage and calculated_grade unchanged; set_override(g, ...)
\* sets is_overridden, override_grade = g and final_grade = g; remove_override
\* clears is_overridden, override_grade and override_reason and sets
\* final_grade back to calculated_grade (null when there is none).
C26_OverrideKeepsUnderlyingData ==
    [][/\ last'.op = "set_override" =>
              /\ UnderlyingDataKept(last'.row)
              /\ grades'[last'.row].is_overridden
              /\ grades'[last'.row].override_grade = last'.grade
              /\ grades'[last'.row].final_grade = last'.grade
       /\ last'.op = "remove_override" =>
              /\ UnderlyingDataKept(last'.row)
              /\ ~grades'[last'.row].is_overridden
              /\ grades'[last'.row].override_grade = None
              /\ grades'[last'.row].override_reason = None
              /\ grades'[last'.row].final_grade
                     = grades[last'.row].calculated_grade]_vars

\* C26 witness: remove_override was called on a record with a ledger whose
\* calculated grade is 5.0; the override is gone and the final grade is the
\* calculated grade again, beside the calculated percentage
C26_Witness ==
    /\ last.op = "remove_override"
    /\ grades[last.row].component_scores # None
    /\ grades[last.row].calculated_percentage # None
    /\ grades[last.row].calculated_grade = Some(500)
    /\ grades[last.row].final_grade = Some(500)
    /\ ~grades[last.row].is_overridden

\* C26 witness: set_override(1.5) on a record whose calculated grade is 5.0
C26_WitnessSet ==
    /\ last.op = "set_override" /\ last.grade = Some(150)
    /\ grades[last.row].calculated_grade = Some(500)
    /\ grades[last.row].final_grade = Some(150)

\* C26 witness: remove_override on a record without a calculated grade
C26_WitnessNull ==
    /\ last.op = "remove_override"
    /\ grades[last.row].calculated_grade = None
    /\ grades[last.row].final_grade = None

\* the part of the weighted sum that component c of the formula adds for
\* its entry e: a single number v gives v / max_points * 100 * weight / 100,
\* with max_points 100 when the formula gives none
ShareOf(c, e) ==
    IF e.kind = "scalar"
    THEN Rat(e.value * Val(c.weight),
             IF c.max_points = None THEN 100 ELSE Val(c.max_points))
    ELSE IF ComponentPercentage(c, e) = None THEN Rat(0, 1)
    ELSE RDivInt(RMulInt(Val(ComponentPercentage(c, e)), Val(c.weight)), 100)

\* the sum of the shares of the formula components from position i on
RECURSIVE SharesFrom(_, _, _)
SharesFrom(components, scores, i) ==
    IF i > Len(components) THEN Rat(0, 1)
    ELSE RAdd(ShareOf(components[i], Entry(scores, Val(components[i].name))),
              SharesFrom(components, scores, i + 1))

\* the formula components whose entry in the ledger is a single number
ScalarPositions(components, scores) ==
    {i \in DOMAIN components :
        Entry(scores, Val(components[i].name)).kind = "scalar"}

\* the step is calculate_grade on a row where some formula component is
\* stored as a single number
CalculatedOnScalar ==
    /\ last'.op = "calculate_grade"
    /\ ScalarPositions(FormulaComponents(last'.row),
                       get_component_scores(grades[last'.row])) # {}

\* some single number of the row meets max_points 0 in the formula
DividesByZero ==
    \E i \in ScalarPositions(FormulaComponents(last'.row),
                             get_component_scores(grades[last'.row])) :
        FormulaComponents(last'.row)[i].max_points = Some(0)

\* get_component_items returned an empty list for a single number and
\* changed nothing
ItemsOfScalarEmpty ==
    /\ last'.op = "get_component_items"
    /\ Entry(get_component_scores(grades[last'.row]), last'.component).kind = "scalar"
    => last'.value = <<>> /\ grades' = grades

\* add_component_item on a single number left a list holding the new item
AddReplacesScalar ==
    /\ last'.op = "add_component_item" /\ last'.raised = ""
    /\ Entry(get_component_scores(grades[last'.row]), last'.component).kind = "scalar"
    => LET e == Entry(get_component_scores(grades'[last'.row]), last'.component)
       IN  /\ e.kind = "list" /\ Len(e.items) = 1
           /\ e.items[1].score = Num(Val(last'.args.score))
           /\ e.items[1].max = Num(Val(last'.args.max_score))

\* calculate_grade returned and stored the rounded sum of the shares
SharesStored ==
    /\ last'.raised = ""
    /\ grades'[last'.row].calculated_percentage # None
    /\ NearestHundredth(Val(grades'[last'.row].calculated_percentage),
                        SharesFrom(FormulaComponents(last'.row),
                                   get_component_scores(grades[last'.row]), 1))

C27_WitnessMaxPoints ==
    /\ last.op = "calculate_grade" /\ last.raised = ""
    /\ get_grading_formula(classes[1]) = F_Half_max
    /\ get_component_scores(grades[last.row])
           = Scores(ScalarEntry(85), AbsentEntry, AbsentEntry)
    /\ grades[last.row].calculated_percentage = Some(5100)

\* C27 witness: add_component_item replaced the number of Extra by a list of
\* one item, the other components kept
C27_WitnessAdd ==
    /\ last.op = "add_component_item" /\ last.raised = ""
    /\ last.component = Extra
    /\ get_component_scores(grades[last.row])
           = Scores(ScalarEntry(40), OneItem(90, 100),
                    ListEntry(<<ItemA(Num(20), Num(25))>>))

\* the percentages calculate_grade can store, in hundredths
CalculablePercentages == 0..10000

\* the last step converted a calculable percentage with the default table
ConvertedByDefault ==
    /\ last.op = "convert_to_ph_grade"
    /\ get_grade_conversion_table(classes[last.class_id]) = DefaultConversionTable
    /\ last.percentage \in CalculablePercentages

\* C28: under the default conversion table convert_to_ph_grade is monotone
\* over the percentages 0.00 to 100.00 in steps of 0.01: a higher percentage
\* never converts to a numerically larger (worse) grade, and every such
\* percentage falls in some range of the table.
C28_DefaultConversionMonotone ==
    ConvertedByDefault =>
        /\ last.grade # None
        /\ Containing(DefaultParsed, last.percentage) # {}
        /\ \A q \in CalculablePercentages :
               last.percentage <= q =>
                   Val(convert_to_ph_grade(classes[last.class_id], q))
                       <= Val(last.grade)

\* the item is a dictionary with max > 0, 0 <= score <= max and a name that
\* is not blank
WellFormedItem(it) ==
    /\ it.is_dict
    /\ it.score.k = "num" /\ it.max.k = "num"
    /\ it.max.v > 0
    /\ 0 <= it.score.v /\ it.score.v <= it.max.v
    /\ Strip(it.name) # <<>>

\* C29: after any sequence of add_component_item, update_component_item and
\* delete_component_item calls from the empty ledger, whether the calls
\* succeed or fail, every stored item has max > 0, 0 <= score <= max and a
\* non-blank name.
C29_StoredItemsWellFormed ==
    \A i \in DOMAIN grades, c \in CompKeys :
        LET e == Entry(get_component_scores(grades[i]), c)
        IN  /\ e.kind # "scalar"
            /\ \A k \in DOMAIN e.items : WellFormedItem(e.items[k])

\* C29 witness: an update with a score above the max of the item was
\* refused on a ledger holding two items, one of them changed by an earlier
\* update
C29_Witness ==
    /\ last.op = "update_component_item"
    /\ last.raised = "Score cannot exceed max score"
    /\ LET items == get_component_items(grades[last.row], Quizzes)
       IN  /\ Len(items) = 2
           /\ \E k \in DOMAIN items : items[k].max = Num(30)

\* C29 witness: a delete left one item, whose score, max and name were
\* changed by earlier updates
C29_WitnessDelete ==
    /\ last.op = "delete_component_item" /\ last.ok
    /\ get_component_items(grades[last.row], Quizzes)
           = <<Item(Num(5), Num(30), <<"b">>, "2024-11-11")>>

\* calculate_grade returned on row last'.row and calculated_percentage is
\* null or within 0 .. 100
PercentageInRange ==
    LET p == grades'[last'.row].calculated_percentage
    IN  p # None => 0 <= Val(p) /\ Val(p) <= 10000

\* the formula components of weight w or more that have no item in the
\* ledger of row last'.row
WithoutItems(w) ==
    {k \in DOMAIN FormulaComponents(last'.row) :
        /\ Val(FormulaComponents(last'.row)[k].weight) >= w
        /\ get_component_items(grades[last'.row],
                               Val(FormulaComponents(last'.row)[k].name)) = <<>>}

\* the step added an item to a component that had none
AddedFirstItem ==
    /\ last'.op = "add_component_item" /\ last'.raised = ""
    /\ get_component_items(grades[last'.row], last'.component) = <<>>

\* calculate_grade on the ledger after the step gives no lower a percentage
\* than on the ledger before it (the same sum rounds the same way)
NotLowered ==
    LET cls == classes[ClassIdOf(grades[last'.row])]
        before == grades[last'.row]
        after == grades'[last'.row]
        same == TotalWeighted(FormulaComponents(last'.row),
                              get_component_scores(before))
                = TotalWeighted(FormulaComponents(last'.row),
                                get_component_scores(after))
    IN  \A t1 \in CalcTies(before, cls), t2 \in CalcTies(after, cls) :
            LET p == calculate_grade(before, cls, t1).grade.calculated_percentage
                q == calculate_grade(after, cls, t2).grade.calculated_percentage
            IN  (same => t1 = t2) /\ p # None => q # None /\ Val(p) <= Val(q)

C30_WitnessAdd ==
    /\ last.op = "add_component_item" /\ last.raised = ""
    /\ last.component = Quizzes
    /\ get_grading_formula(classes[1]) = F_3070_max
    /\ Len(get_component_items(grades[last.row], Quizzes)) = 1
    /\ get_component_items(grades[last.row], Exams) # <<>>
    /\ grades[last.row].calculated_percentage = Some(7000)

====
